---- MODULE Spec2Model ----
(***************************************************************************)
(* Clipboard-history extension: the bounded history (logic/storage), the   *)
(* operation validator (logic/sync-utils), the background coordinator      *)
(* ClipboardSyncManager (logic/sync.ts) and the periodic reconciliation    *)
(* service (background/sync-service).                                      *)
(*                                                                         *)
(* JavaScript values are represented as follows.                           *)
(*   - a string that may be undefined or empty: "" stands for both (every  *)
(*     test the code makes on such a value is a truthiness test);          *)
(*   - an optional object (operation.data, status.error): a sequence of    *)
(*     length 0 (undefined) or 1;                                          *)
(*   - a ClipboardItem: [id, content]; its timestamp, type and source      *)
(*     fields are read by no branch of the modelled code;                  *)
(*   - Date.now(): the variable now.                                       *)
(***************************************************************************)
EXTENDS Integers, Sequences, FiniteSets, TLC

\* ------------------------------------------------------------------ bounds
MaxTime == 2
MaxPending == 1
MaxCapacity == 1
MaxUuids == 2

\* ------------------------------------------------------- program constants
DEFAULT_MAX_ITEMS == 50
MaxRetries == 3
RETRY_DELAY == 1000
BACKOFF_MULTIPLIER == 2

OperationTypes == {"create", "delete", "clear", "update"}
Sources == {"popup", "sidepanel", "content", "background"}
Contexts == {"popup", "sidepanel", "content"}

Undefined == <<>>
Some(v) == <<v>>
IsDefined(o) == Len(o) > 0
Value(o) == o[1]

Item(id, content) == [id |-> id, content |-> content]

Operation(type, itemId, data, timestamp, source) ==
    [type |-> type, itemId |-> itemId, data |-> data,
     timestamp |-> timestamp, source |-> source]

\* --------------------------------------------------------- array helpers
\* Array.prototype.slice(0, n) for n >= 0 and for n < 0 (counted from the end).
Slice0(s, n) ==
    LET end == IF n >= 0 THEN (IF n < Len(s) THEN n ELSE Len(s))
               ELSE (IF Len(s) + n > 0 THEN Len(s) + n ELSE 0)
    IN  SubSeq(s, 1, end)

\* Array.prototype.filter(item => item.id !== id)
RECURSIVE FilterOutId(_, _)
FilterOutId(s, id) ==
    IF s = <<>> THEN <<>>
    ELSE IF Head(s).id = id THEN FilterOutId(Tail(s), id)
         ELSE <<Head(s)>> \o FilterOutId(Tail(s), id)

\* Array.prototype.findIndex(item => item.id === id), 1-based; 0 when absent.
FindIndex(s, id) ==
    IF \E i \in 1..Len(s) : s[i].id = id
    THEN CHOOSE i \in 1..Len(s) :
            s[i].id = id /\ \A j \in 1..(i - 1) : s[j].id # id
    ELSE 0

HasId(s, id) == \E i \in 1..Len(s) : s[i].id = id

\* ------------------------------------------------------------ validation
Invalid(msg) == [valid |-> FALSE, error |-> msg]
Valid == [valid |-> TRUE, error |-> ""]

validateOperation(op) ==
    IF op.type \notin OperationTypes THEN Invalid("Invalid operation type")
    ELSE IF op.timestamp = 0 THEN Invalid("Invalid timestamp")
    ELSE IF op.source \notin Sources THEN Invalid("Invalid source")
    ELSE CASE op.type = "create" ->
                IF ~IsDefined(op.data)
                THEN Invalid("Create operation requires data")
                ELSE IF Value(op.data).id = "" \/ Value(op.data).content = ""
                     THEN Invalid("Create operation data is incomplete")
                     ELSE Valid
           [] op.type = "delete" ->
                IF op.itemId = ""
                THEN Invalid("Delete operation requires itemId")
                ELSE Valid
           [] op.type = "update" ->
                IF ~IsDefined(op.data) \/ op.itemId = ""
                THEN Invalid("Update operation requires both data and itemId")
                ELSE Valid
           [] OTHER -> Valid

\* --------------------------------------------------- the two appliers
\* Mutant of IncomingItems: a create that does not look for the id first.
IncomingItemsNoExistenceCheck(items, op) ==
    CASE op.type = "create" ->
            IF IsDefined(op.data) THEN <<Value(op.data)>> \o items ELSE items
      [] op.type = "delete" ->
            IF op.itemId # "" THEN FilterOutId(items, op.itemId) ELSE items
      [] op.type = "clear" -> <<>>
      [] op.type = "update" ->
            IF IsDefined(op.data) /\ FindIndex(items, Value(op.data).id) # 0
            THEN [items EXCEPT ![FindIndex(items, Value(op.data).id)] = Value(op.data)]
            ELSE items
      [] OTHER -> items

\* Mutant of IncomingItems: an update that moves the item to the front.
IncomingItemsUpdateToFront(items, op) ==
    CASE op.type = "create" ->
            IF IsDefined(op.data) /\ ~HasId(items, Value(op.data).id)
            THEN <<Value(op.data)>> \o items
            ELSE items
      [] op.type = "delete" ->
            IF op.itemId # "" THEN FilterOutId(items, op.itemId) ELSE items
      [] op.type = "clear" -> <<>>
      [] op.type = "update" ->
            IF IsDefined(op.data) /\ FindIndex(items, Value(op.data).id) # 0
            THEN <<Value(op.data)>> \o FilterOutId(items, Value(op.data).id)
            ELSE items
      [] OTHER -> items

\* The switch of ClipboardSyncManager.handleIncomingOperation: the items
\* after the operation (maxItems is not touched).
IncomingItems(items, op) ==
    CASE op.type = "create" ->
            IF IsDefined(op.data) /\ ~HasId(items, Value(op.data).id)
            THEN <<Value(op.data)>> \o items
            ELSE items
      [] op.type = "delete" ->
            IF op.itemId # "" THEN FilterOutId(items, op.itemId) ELSE items
      [] op.type = "clear" -> <<>>
      [] op.type = "update" ->
            IF IsDefined(op.data) /\ FindIndex(items, Value(op.data).id) # 0
            THEN [items EXCEPT ![FindIndex(items, Value(op.data).id)] = Value(op.data)]
            ELSE items
      [] OTHER -> items

\* Mutant of handleSyncOperation: a create that does not look for the id
\* first.
handleSyncOperationNoExistenceCheck(history, op) ==
    CASE op.type = "create" ->
            IF IsDefined(op.data)
            THEN [history EXCEPT !.items =
                     Slice0(<<Value(op.data)>> \o history.items, history.maxItems)]
            ELSE history
      [] op.type = "delete" ->
            IF op.itemId # ""
            THEN [history EXCEPT !.items = FilterOutId(history.items, op.itemId)]
            ELSE history
      [] op.type = "clear" -> [history EXCEPT !.items = <<>>]
      [] op.type = "update" ->
            IF IsDefined(op.data) /\ FindIndex(history.items, Value(op.data).id) # 0
            THEN [history EXCEPT
                    !.items[FindIndex(history.items, Value(op.data).id)] = Value(op.data)]
            ELSE history
      [] OTHER -> history

\* storage.handleSyncOperation: the history after the operation.
handleSyncOperation(history, op) ==
    CASE op.type = "create" ->
            IF IsDefined(op.data) /\ ~HasId(history.items, Value(op.data).id)
            THEN [history EXCEPT !.items =
                     Slice0(<<Value(op.data)>> \o history.items, history.maxItems)]
            ELSE history
      [] op.type = "delete" ->
            IF op.itemId # ""
            THEN [history EXCEPT !.items = FilterOutId(history.items, op.itemId)]
            ELSE history
      [] op.type = "clear" -> [history EXCEPT !.items = <<>>]
      [] op.type = "update" ->
            IF IsDefined(op.data) /\ FindIndex(history.items, Value(op.data).id) # 0
            THEN [history EXCEPT
                    !.items[FindIndex(history.items, Value(op.data).id)] = Value(op.data)]
            ELSE history
      [] OTHER -> history

\* How an applier writes the items for an operation: it assigns a new array
\* to history.items, writes one element of the array that is there, or
\* writes nothing (both appliers decide alike).
ItemsWrite(items, op) ==
    CASE op.type = "create" ->
            IF IsDefined(op.data) /\ ~HasId(items, Value(op.data).id)
            THEN "assign" ELSE "none"
      [] op.type = "delete" -> IF op.itemId # "" THEN "assign" ELSE "none"
      [] op.type = "clear" -> "assign"
      [] op.type = "update" ->
            IF IsDefined(op.data) /\ FindIndex(items, Value(op.data).id) # 0
            THEN "element" ELSE "none"
      [] OTHER -> "none"

\* DEFAULT_HISTORY after a write to the object the ref holds, items being
\* the items of the history after it. An assignment to history.items is one
\* to DEFAULT_HISTORY.items when the ref holds DEFAULT_HISTORY itself, and
\* else parts the history's array from that of DEFAULT_HISTORY; a write to
\* an element is one to DEFAULT_HISTORY.items when the array is the same.
DefaultAfterWrite(default, write, items) ==
    CASE write = "assign" ->
            IF default.held THEN [default EXCEPT !.items = items]
            ELSE [default EXCEPT !.shared = FALSE]
      [] write = "element" ->
            IF default.held \/ default.shared
            THEN [default EXCEPT !.items = items]
            ELSE default
      [] OTHER -> default

\* DEFAULT_HISTORY after clipboardHistory.value = { ...history }: the ref
\* holds a new object, whose items are the array history.items was.
DefaultAfterCopy(default) ==
    [default EXCEPT !.held = FALSE, !.shared = default.held \/ default.shared]

\* DEFAULT_HISTORY after storage.handleSyncOperation.
DefaultAfterSyncOperation(default, history, op) ==
    DefaultAfterCopy(
        DefaultAfterWrite(default, ItemsWrite(history.items, op),
                          handleSyncOperation(history, op).items))

\* ------------------------------------------------------------------ state
VARIABLES
    clipboardHistory,   \* storage.clipboardHistory: [items, maxItems]
    defaultHistory,     \* storage.DEFAULT_HISTORY: its items, whether the
                        \* ref holds this very object, and whether the
                        \* history's items are this very array
    syncStatus,         \* ClipboardSyncManager.syncStatus
    now,                \* Date.now()
    tasks,              \* the asynchronous calls in progress, by slot
    network,            \* messages sent and not yet settled
    nextUuid,           \* how many ids crypto.randomUUID() has handed out
    lastCall,           \* the handler or continuation that ran last
    permissionStatus,   \* permissions.permissionStatus, the stored record
    permissionCall,     \* the PermissionManager call in progress
    returned,           \* the arguments and the value of the last call made
                        \* to a function that returns one
    contentScript,      \* the content script of a page: its permission flag
                        \* and the handlers in progress
    views,              \* the ClipboardHistory component of the popup and
                        \* of the side panel: its history ref and where its
                        \* handlers are
    copies              \* the onMessage('clipboard-copied') handlers in
                        \* progress in the background

vars == <<clipboardHistory, defaultHistory, syncStatus, now, tasks, network, nextUuid, lastCall,
          permissionStatus, permissionCall, returned, contentScript, views,
          copies>>

storeVars == <<clipboardHistory, defaultHistory>>

permissionVars == <<permissionStatus, permissionCall>>

surfaceVars == <<contentScript, views, copies>>

\* A surface that is closed: no ClipboardHistory component.
ClosedView == [pc |-> "closed"]

\* The component of a surface that is open and has run onMounted to its
\* end: history is its history ref; pc is where onMounted is ("asking"
\* while it awaits the answer to get-clipboard-history, "answered" when the
\* background has made the answer, "listening" once the runtime listener
\* is registered); answer is the answer the background made; dirty says
\* that clipboardHistory.value was written and the watch has not run yet;
\* resuming says that handleClearHistory or handleRemoveFromHistory awaits
\* the storage function it called; inbox holds the clipboard-updated
\* messages the page was sent and its runtime listener has not run for.
OpenView(history) ==
    [pc |-> "listening", history |-> history, answer |-> Undefined,
     dirty |-> FALSE, resuming |-> FALSE, inbox |-> {}]

\* No popup and no side panel is open.
NoViews == [c \in {"popup", "sidepanel"} |-> ClosedView]

\* The surfaces that show the history: each mounts a ClipboardHistory
\* component while it is open.
IsOpen(c) == views[c].pc # "closed"

\* The views when the surfaces of open are open and show history.
ViewsOf(open, history) ==
    [c \in {"popup", "sidepanel"} |->
        IF c \in open THEN OpenView(history) ELSE ClosedView]

\* The views after a write to clipboardHistory.value: the deep watch of
\* every component (ClipboardHistory.vue 38-44) is triggered; its callback
\* runs later.
Written(vs) ==
    [c \in DOMAIN vs |->
        IF vs[c].pc = "closed" THEN vs[c] ELSE [vs[c] EXCEPT !.dirty = TRUE]]

\* The handlers of clipboard-copied that may be in progress at once in the
\* background, and one that is not running.
CopyHandlers == {-1, -2}

IdleCopy == [pc |-> "idle", content |-> ""]

NoCopies == [h \in CopyHandlers |-> IdleCopy]

\* DEFAULT_HISTORY as the module defines it. The ref of clipboardHistory is
\* made from it (storage.ts 39-46): with nothing stored, the ref holds this
\* very object (held); with a history stored, even one equal to the
\* default, it holds an object of its own.
ModuleDefault(held) == [items |-> <<>>, held |-> held, shared |-> FALSE]

\* The states DEFAULT_HISTORY may be in when the extension starts on a
\* history: only the default history can be that of a first run.
InitialDefaults(history) ==
    {ModuleDefault(held) :
        held \in IF history = [items |-> <<>>, maxItems |-> DEFAULT_MAX_ITEMS]
                 THEN BOOLEAN ELSE {FALSE}}

\* permissions.DEFAULT_PERMISSION_STATUS
DEFAULT_PERMISSION_STATUS ==
    [clipboard |-> "prompt", lastChecked |-> 0, hasRequested |-> FALSE]

NoPermissionCall ==
    [pc |-> "idle", fn |-> "none", branch |-> "none", started |-> 0,
     before |-> DEFAULT_PERMISSION_STATUS, probes |-> 0]

NothingReturned == [fn |-> "none"]

\* The handlers of the content script that may be in progress at once:
\* initializePermission (0), and the listeners of two events that overlap.
Handlers == {0, 1, 2}

\* A handler that is not running: no event, no PermissionManager call.
IdleHandler == [kind |-> "none", pc |-> "idle", call |-> NoPermissionCall]

\* The content script as it is when the page has loaded it (index.ts 24,
\* 55): no permission known, initializePermission called and awaiting
\* isPermissionActuallyGranted, no listener running.
ContentScriptLoaded ==
    [hasClipboardPermission |-> FALSE,
     handlers |-> [h \in Handlers |->
                     IF h = 0
                     THEN [kind |-> "load", pc |-> "testing",
                           call |-> NoPermissionCall]
                     ELSE IdleHandler]]

TaskIds == DOMAIN tasks

IdleTask ==
    [pc |-> "idle", kind |-> "none", op |-> Undefined, attempt |-> 0,
     acked |-> FALSE, queue |-> <<>>, live |-> FALSE, sends |-> 0,
     snapshot |-> Undefined,
     delay |-> 0,          \* the setTimeout delay retryOperation waits for
     passStart |-> <<>>,   \* pendingOperations when the pass began
     passDone |-> <<>>]    \* what the pass has handed to broadcastOperation

\* lastCall: the call that made the last step, the slot it ran in, whether
\* its operation came from the background (an echo), whether the operation
\* passed validation, and whether its write to storage failed.
Call(name, task, echo, valid, fault) ==
    [name |-> name, task |-> task, echo |-> echo, valid |-> valid,
     fault |-> fault]

Other == Call("other", 0, FALSE, TRUE, FALSE)

SyncMessage(to, task, op) ==
    [type |-> "sync-operation", to |-> to, task |-> task,
     operation |-> Some(op), history |-> Undefined]

UpdatedMessage(task, history) ==
    [type |-> "clipboard-updated", to |-> "runtime", task |-> task,
     operation |-> Undefined, history |-> Some(history)]

\* browser.runtime.sendMessage(m) from the background: the message goes to
\* every page that has a runtime listener registered when it is sent.
Dispatched(vs, m) ==
    [c \in DOMAIN vs |->
        IF vs[c].pc = "listening"
        THEN [vs[c] EXCEPT !.inbox = @ \cup {m}]
        ELSE vs[c]]

Uuid(n) == <<"u1", "u2", "u3", "u4">>[n]

\* The values a persisted maxItems takes: the default of a first run, or a
\* smaller capacity left in storage.
PersistedMaxItems == (1..MaxCapacity) \cup {DEFAULT_MAX_ITEMS}

\* The state after construction, for a stored history, the slots of the
\* calls that may be in progress, the states DEFAULT_HISTORY may be in when
\* the module is loaded, and the surfaces that are open. A surface that is
\* open has called loadHistory (ClipboardHistory.vue 50), after which the
\* ref holds an object of its own.
InitWith(history, slots, defaults, open) ==
    /\ clipboardHistory = history
    /\ defaultHistory \in IF open = {} THEN defaults
                          ELSE {DefaultAfterCopy(d) : d \in defaults}
    /\ now = 1
    /\ syncStatus = [isSyncing |-> FALSE, lastSyncTime |-> 1,
                     pendingOperations |-> <<>>, error |-> Undefined]
    /\ tasks = [t \in slots |-> IdleTask]
    /\ network = {}
    /\ nextUuid = 0
    /\ lastCall = Other
    /\ permissionStatus = DEFAULT_PERMISSION_STATUS
    /\ permissionCall = NoPermissionCall
    /\ returned = NothingReturned
    /\ contentScript = ContentScriptLoaded
    /\ views = ViewsOf(open, history)
    /\ copies = NoCopies

\* An empty history is stored, the popup is open and the side panel is
\* closed. The coordinator and the appliers never read DEFAULT_HISTORY.
Init ==
    InitWith([items |-> <<>>, maxItems |-> DEFAULT_MAX_ITEMS], {1},
             {ModuleDefault(FALSE)}, {"popup"})

\* The clock advances between handlers.
Tick ==
    /\ now < MaxTime
    /\ now' = now + 1
    /\ lastCall' = Other
    /\ UNCHANGED <<surfaceVars, permissionVars, returned, storeVars, syncStatus, tasks, network, nextUuid>>

\* ------------------------------------------------------ storage functions
\* ensureValidHistory on a value whose items is an array and whose maxItems
\* is a number returns it as it is.
ensureValidHistory(history) == history

\* Mutant of addToHistoryResult: the new item goes to the end, and the
\* oldest items are the ones kept.
addToHistoryResultKeepOldest(history, newItem) ==
    [history EXCEPT
        !.items = Slice0(history.items \o <<newItem>>, history.maxItems)]

addToHistoryResult(history, newItem) ==
    [ensureValidHistory(history) EXCEPT
        !.items = Slice0(<<newItem>> \o history.items, history.maxItems)]

AddToHistory(content) ==
    /\ nextUuid < MaxUuids
    /\ nextUuid' = nextUuid + 1
    /\ clipboardHistory' =
          addToHistoryResult(clipboardHistory, Item(Uuid(nextUuid + 1), content))
    /\ defaultHistory' =
          DefaultAfterCopy(DefaultAfterWrite(defaultHistory, "assign",
                                              clipboardHistory'.items))
    /\ views' = Written(views)
    /\ lastCall' = Call("addToHistory", 0, FALSE, TRUE, FALSE)
    /\ UNCHANGED <<contentScript, copies, permissionVars, returned, syncStatus,
                   now, tasks, network>>

RemoveFromHistory(id) ==
    /\ clipboardHistory' =
          [ensureValidHistory(clipboardHistory) EXCEPT
              !.items = FilterOutId(clipboardHistory.items, id)]
    /\ defaultHistory' =
          DefaultAfterCopy(DefaultAfterWrite(defaultHistory, "assign",
                                              clipboardHistory'.items))
    /\ views' = Written(views)
    /\ lastCall' = Call("removeFromHistory", 0, FALSE, TRUE, FALSE)
    /\ UNCHANGED <<contentScript, copies, permissionVars, returned, syncStatus,
                   now, tasks, network, nextUuid>>

\* clearHistory: clipboardHistory.value = { ...DEFAULT_HISTORY }, a new
\* object whose items are the array of DEFAULT_HISTORY.
StorageClearHistory ==
    /\ clipboardHistory' = [items |-> defaultHistory.items,
                            maxItems |-> DEFAULT_MAX_ITEMS]
    /\ defaultHistory' = [defaultHistory EXCEPT !.held = FALSE, !.shared = TRUE]
    /\ views' = Written(views)
    /\ lastCall' = Call("clearHistory", 0, FALSE, TRUE, FALSE)
    /\ UNCHANGED <<contentScript, copies, permissionVars, returned, syncStatus,
                   now, tasks, network, nextUuid>>

\* ------------------------------------------------------- the coordinator
\* Mutant of handleIncomingOperation: no check of the operation's origin.
handleIncomingOperationNoGuard(history, status, op, time) ==
    IF ~validateOperation(op).valid
    THEN [history |-> history, status |-> status]
    ELSE [history |-> [history EXCEPT !.items = IncomingItems(history.items, op)],
          status |-> [status EXCEPT !.lastSyncTime = time]]

\* ClipboardSyncManager.handleIncomingOperation: the history and the status
\* after the call.
handleIncomingOperation(history, status, op, time) ==
    IF op.source = "background"
    THEN [history |-> history, status |-> status]
    ELSE IF ~validateOperation(op).valid
    THEN [history |-> history, status |-> status]
    ELSE [history |-> [history EXCEPT !.items = IncomingItems(history.items, op)],
          status |-> [status EXCEPT !.lastSyncTime = time]]

\* DEFAULT_HISTORY after ClipboardSyncManager.handleIncomingOperation, which
\* writes clipboardHistory.value.items and assigns no new object to the ref.
DefaultAfterIncoming(default, history, op) ==
    IF op.source = "background" \/ ~validateOperation(op).valid
    THEN default
    ELSE DefaultAfterWrite(default, ItemsWrite(history.items, op),
                           IncomingItems(history.items, op))

\* The views after ClipboardSyncManager.handleIncomingOperation: the write
\* it makes, if it makes one, triggers the watch of the components.
ViewsAfterIncoming(vs, history, op) ==
    IF \/ op.source = "background"
       \/ ~validateOperation(op).valid
       \/ ItemsWrite(history.items, op) = "none"
    THEN vs
    ELSE Written(vs)

\* The contexts that register a handler for sync-operation: the popup and
\* the side panel (ClipboardHistory.vue). The content script registers none.
UiContexts == {"popup", "sidepanel"}

\* The sends of one broadcast attempt to the three named contexts
\* (sync.ts 64-74) that stay in flight: a send to a context without a
\* handler rejects, and the rejection is swallowed where it is made.
ContextSends(t, op) == {SyncMessage(c, t, op) : c \in Contexts \cap UiContexts}

\* Mutant of AttemptThrows: the sends awaited with Promise.all and without
\* their .catch, so that an attempt none of whose sends was received throws.
AttemptThrowsOnFailedSends(fault, acked) == fault \/ ~acked

\* Whether the attempt's try block throws. Every send carries its own
\* .catch and the sends are awaited with Promise.allSettled, so a failed
\* send throws nothing; what can throw is the write to storage made while
\* the operation is applied.
AttemptThrows(fault, acked) == fault

\* Math.pow(base, exponent) for a natural exponent.
RECURSIVE Pow(_, _)
Pow(base, exponent) ==
    IF exponent = 0 THEN 1 ELSE base * Pow(base, exponent - 1)

\* Mutant of RetryDelayFor: a delay that grows by retryDelay each time.
RetryDelayLinear(attempt) == RETRY_DELAY * (attempt + 1)

\* retryOperation: the delay before the retry that follows the failed
\* attempt number attempt (counted from 0).
RetryDelayFor(attempt) == RETRY_DELAY * Pow(BACKOFF_MULTIPLIER, attempt)

\* The catch block of an attempt (sync.ts 103-107).
AttemptFailedStatus(status, message) ==
    [status EXCEPT !.isSyncing = FALSE, !.error = Some(message)]

\* pendingOperations.push(op): the array object is shared with every
\* reconciliation pass that iterates over it.
PushPending(ts, op) ==
    [t \in TaskIds |->
        IF ts[t].kind = "performSyncCheck" /\ ts[t].live
        THEN [ts[t] EXCEPT !.queue = Append(@, op)]
        ELSE ts[t]]

\* pendingOperations = pendingOperations.filter(...): a new array object;
\* passes that iterate keep the old one.
ReplacePending(ts) ==
    [t \in TaskIds |-> [ts[t] EXCEPT !.live = FALSE]]

\* Mutant of FilterPending: the call returns without filtering.
FilterPendingNone(pending, type, itemId) == pending

\* createItem, deleteItem, clearHistory: the predicate of their filter, which
\* drops the operations of the call's type and, but for a clear, id.
RECURSIVE FilterPending(_, _, _)
FilterPending(pending, type, itemId) ==
    IF pending = <<>> THEN <<>>
    ELSE LET op == Head(pending)
             drop == op.type = type /\ (type = "clear" \/ op.itemId = itemId)
         IN  IF drop THEN FilterPending(Tail(pending), type, itemId)
             ELSE <<op>> \o FilterPending(Tail(pending), type, itemId)

\* createItem, deleteItem and clearHistory up to their first suspension:
\* push the operation, then broadcastOperation validates it (and throws) or
\* starts the first attempt. A call that suspends takes a slot that is
\* free; one that throws is over at once and needs none. The code sets no
\* limit to pendingOperations: the guard on its length is the bound of the
\* model, MaxPending operations and one more for each slot after the first.
Submit(t, kind, op) ==
    /\ validateOperation(op).valid => tasks[t].pc = "idle"
    /\ Len(syncStatus.pendingOperations) < MaxPending + Cardinality(TaskIds) - 1
    /\ LET pushed == [syncStatus EXCEPT !.pendingOperations = Append(@, op)]
           valid == validateOperation(op).valid
       IN  /\ lastCall' = Call(kind, t, op.source = "background", valid, FALSE)
           /\ IF valid
              THEN /\ syncStatus' = [pushed EXCEPT !.isSyncing = TRUE,
                                                   !.error = Undefined]
                   /\ network' = network \cup ContextSends(t, op)
                   /\ tasks' = [PushPending(tasks, op) EXCEPT ![t] =
                                  [IdleTask EXCEPT !.pc = "queryTabs", !.kind = kind,
                                                   !.op = Some(op)]]
              ELSE /\ syncStatus' = pushed
                   /\ network' = network
                   /\ tasks' = PushPending(tasks, op)
    /\ UNCHANGED <<surfaceVars, permissionVars, returned, storeVars, now, nextUuid>>

CreateItem(t, item, source) ==
    Submit(t, "createItem", Operation("create", item.id, Some(item), now, source))

DeleteItem(t, itemId, source) ==
    Submit(t, "deleteItem", Operation("delete", itemId, Undefined, now, source))

ClearHistory(t, source) ==
    Submit(t, "clearHistory", Operation("clear", "", Undefined, now, source))

\* browser.tabs.query answers (or throws, which is caught): one send per tab,
\* to a content script, which has no handler for it: each rejects and is
\* swallowed.
QueryTabs(t) ==
    /\ tasks[t].pc = "queryTabs"
    /\ network' = network
    /\ tasks' = [tasks EXCEPT ![t].pc = "awaitSettled"]
    /\ lastCall' = Other
    /\ UNCHANGED <<surfaceVars, permissionVars, returned, storeVars, syncStatus, now, nextUuid>>

\* A popup or side panel that is open receives the operation
\* (ClipboardHistory.vue, onMessage('sync-operation')): it applies it with
\* handleSyncOperation and takes the stored history as its view; the send
\* resolves.
SurfaceReceives(m) ==
    /\ m \in network
    /\ m.type = "sync-operation"
    /\ m.to \in UiContexts
    /\ IsOpen(m.to)
    /\ clipboardHistory' = handleSyncOperation(clipboardHistory, Value(m.operation))
    /\ defaultHistory' = DefaultAfterSyncOperation(defaultHistory, clipboardHistory,
                                                   Value(m.operation))
    /\ views' = [Written(views) EXCEPT ![m.to].history = clipboardHistory']
    /\ network' = network \ {m}
    /\ tasks' = [tasks EXCEPT ![m.task].acked = TRUE]
    /\ lastCall' = Call("handleSyncOperation", m.task, Value(m.operation).source = "background",
                        TRUE, FALSE)
    /\ UNCHANGED <<contentScript, copies, permissionVars, returned, syncStatus,
                   now, nextUuid>>

\* The recipient is not open: the send rejects and the rejection is
\* swallowed.
SendFails(m) ==
    /\ m \in network
    /\ m.type = "sync-operation"
    /\ m.to \in UiContexts => ~IsOpen(m.to)
    /\ network' = network \ {m}
    /\ lastCall' = Other
    /\ UNCHANGED <<surfaceVars, permissionVars, returned, storeVars, syncStatus, now, tasks, nextUuid>>

InFlight(t, type) == {m \in network : m.task = t /\ m.type = type}

SubmitKinds == {"createItem", "deleteItem", "clearHistory"}

\* Promise.allSettled answers: the rest of the attempt (sync.ts 95-109) and
\* what retryOperation does with its outcome.
Settle(t, fault) ==
    /\ tasks[t].pc = "awaitSettled"
    /\ InFlight(t, "sync-operation") = {}
    /\ LET op == Value(tasks[t].op)
           r == handleIncomingOperation(clipboardHistory, syncStatus, op, now)
       IN  /\ fault => op.source # "background"
           /\ lastCall' = Call("settle", t, op.source = "background", TRUE, fault)
           /\ IF AttemptThrows(fault, tasks[t].acked)
              THEN /\ UNCHANGED <<storeVars, views>>
                   /\ syncStatus' = AttemptFailedStatus(syncStatus,
                                                        "Storage write failed")
                   /\ tasks' = [tasks EXCEPT ![t] =
                         IF tasks[t].attempt < MaxRetries
                         THEN [@ EXCEPT !.pc = "backoff",
                                        !.delay = RetryDelayFor(tasks[t].attempt)]
                         ELSE IF tasks[t].kind \in SubmitKinds
                         THEN IdleTask
                         ELSE [@ EXCEPT !.pc = "reconcile", !.op = Undefined,
                                        !.attempt = 0, !.acked = FALSE]]
              ELSE /\ clipboardHistory' = r.history
                   /\ defaultHistory' =
                         DefaultAfterIncoming(defaultHistory, clipboardHistory, op)
                   /\ views' = ViewsAfterIncoming(views, clipboardHistory, op)
                   /\ syncStatus' = [r.status EXCEPT
                                        !.isSyncing = FALSE,
                                        !.lastSyncTime = now,
                                        !.error = Undefined]
                   /\ tasks' = [tasks EXCEPT ![t] =
                         IF tasks[t].kind \in SubmitKinds
                         THEN [@ EXCEPT !.pc = "resolved"]
                         ELSE [@ EXCEPT !.pc = "reconcile", !.op = Undefined,
                                        !.attempt = 0, !.acked = FALSE]]
    /\ UNCHANGED <<contentScript, copies, permissionVars, returned, now, network,
                   nextUuid>>

\* createItem, deleteItem, clearHistory after the awaited broadcast resolved:
\* the filter on pendingOperations.
Complete(t) ==
    /\ tasks[t].pc = "resolved"
    /\ LET op == Value(tasks[t].op)
       IN  /\ syncStatus' = [syncStatus EXCEPT !.pendingOperations =
                                FilterPending(@, op.type, op.itemId)]
           /\ lastCall' = Call("complete", t, FALSE, TRUE, FALSE)
    /\ tasks' = [ReplacePending(tasks) EXCEPT ![t] = IdleTask]
    /\ UNCHANGED <<surfaceVars, permissionVars, returned, storeVars, now, network, nextUuid>>

\* clearPendingOperations (sync.ts 184-187): pendingOperations becomes a
\* new, empty array. It is a public method of the exported syncManager
\* that nothing in src/ calls: a call may come at any time, whatever is in
\* progress.
ClearPendingOperations ==
    /\ syncStatus' = [syncStatus EXCEPT !.pendingOperations = <<>>]
    /\ tasks' = ReplacePending(tasks)
    /\ lastCall' = Call("clearPendingOperations", 0, FALSE, TRUE, FALSE)
    /\ UNCHANGED <<surfaceVars, permissionVars, returned, storeVars, now, network, nextUuid>>

\* retryOperation after its delay: the next attempt starts.
Retry(t) ==
    /\ tasks[t].pc = "backoff"
    /\ syncStatus' = [syncStatus EXCEPT !.isSyncing = TRUE, !.error = Undefined]
    /\ network' = network \cup ContextSends(t, Value(tasks[t].op))
    /\ tasks' = [tasks EXCEPT ![t].pc = "queryTabs", ![t].attempt = @ + 1,
                              ![t].acked = FALSE, ![t].delay = 0]
    /\ lastCall' = Call("retry", t, FALSE, TRUE, FALSE)
    /\ UNCHANGED <<surfaceVars, permissionVars, returned, storeVars, now, nextUuid>>

\* What the background may receive as a sync-operation: a create, a delete
\* and a clear from a surface, one of each type from the background, and
\* two malformed ones. (The well-formed updates of the surfaces are
\* received in SpecApply and SpecUpdate.)
IncomingOperations ==
    {Operation("create", "a", Some(Item("a", "x")), now, src) :
        src \in {"popup", "background"}}
    \cup {Operation("delete", "a", Undefined, now, src) :
        src \in {"sidepanel", "background"}}
    \cup {Operation("clear", "", Undefined, now, src) :
        src \in {"content", "background"}}
    \cup {Operation("update", "a", Some(Item("a", "y")), now, "background")}
    \cup {Operation("create", "b", Undefined, now, "popup"),
          Operation("update", "a", Undefined, now, "devtools")}

\* Mutant of OnSyncOperation: the handler forwards what it applied.
OnSyncOperationRebroadcast(op) ==
    /\ LET r == handleIncomingOperation(clipboardHistory, syncStatus, op, now)
       IN  /\ clipboardHistory' = r.history
           /\ defaultHistory' =
                 DefaultAfterIncoming(defaultHistory, clipboardHistory, op)
           /\ syncStatus' = r.status
    /\ views' = ViewsAfterIncoming(views, clipboardHistory, op)
    /\ network' = network \cup {SyncMessage(c, 0, op) : c \in UiContexts}
    /\ lastCall' = Call("handleIncomingOperation", 0, op.source = "background",
                        validateOperation(op).valid, FALSE)
    /\ UNCHANGED <<contentScript, copies, permissionVars, returned, now, tasks,
                   nextUuid>>

\* setupSyncListeners, onMessage('sync-operation').
OnSyncOperation(op) ==
    /\ LET r == handleIncomingOperation(clipboardHistory, syncStatus, op, now)
       IN  /\ clipboardHistory' = r.history
           /\ defaultHistory' =
                 DefaultAfterIncoming(defaultHistory, clipboardHistory, op)
           /\ syncStatus' = r.status
    /\ views' = ViewsAfterIncoming(views, clipboardHistory, op)
    /\ lastCall' = Call("handleIncomingOperation", 0, op.source = "background",
                        validateOperation(op).valid, FALSE)
    /\ UNCHANGED <<contentScript, copies, permissionVars, returned, now, tasks,
                   network, nextUuid>>

\* ------------------------------------------- the reconciliation service
\* Mutant of ReconcileFrom: processPendingOperation without its try/catch,
\* so that an operation broadcastOperation rejects ends the pass in the
\* catch of performSyncCheck, before ensureStorageSync.
ReconcileFromUnguarded(t, q, live) ==
    IF q = <<>>
    THEN /\ tasks' = [tasks EXCEPT ![t] =
                [IdleTask EXCEPT !.pc = "storageSync", !.kind = "performSyncCheck",
                                 !.sends = 1, !.snapshot = Some(clipboardHistory),
                                 !.passStart = IF tasks[t].pc = "idle" THEN <<>>
                                               ELSE tasks[t].passStart,
                                 !.passDone = tasks[t].passDone]]
         /\ network' = network \cup {UpdatedMessage(t, clipboardHistory)}
         /\ views' = Dispatched(views, UpdatedMessage(t, clipboardHistory))
         /\ syncStatus' = syncStatus
         /\ lastCall' = Call("ensureStorageSync", t, FALSE, TRUE, FALSE)
    ELSE LET op == Head(q)
             valid == validateOperation(op).valid
             start == IF tasks[t].pc = "idle" THEN syncStatus.pendingOperations
                      ELSE tasks[t].passStart
             next == [IdleTask EXCEPT !.pc = "reconcile", !.kind = "performSyncCheck",
                                      !.queue = Tail(q), !.live = live,
                                      !.passStart = start,
                                      !.passDone = Append(tasks[t].passDone, op)]
         IN  /\ lastCall' = Call("processPendingOperation", t, op.source = "background", valid, FALSE)
             /\ views' = views
             /\ IF valid
                THEN /\ syncStatus' = [syncStatus EXCEPT !.isSyncing = TRUE,
                                                         !.error = Undefined]
                     /\ network' = network \cup ContextSends(t, op)
                     /\ tasks' = [tasks EXCEPT ![t] =
                                    [next EXCEPT !.pc = "queryTabs", !.op = Some(op)]]
                ELSE /\ syncStatus' = syncStatus
                     /\ network' = network
                     /\ tasks' = [tasks EXCEPT ![t] = IdleTask]

\* performSyncCheck from the operation at the head of q on: the loop over
\* the pending operations, then ensureStorageSync, each up to its next
\* suspension.
ReconcileFrom(t, q, live) ==
    IF q = <<>>
    THEN /\ tasks' = [tasks EXCEPT ![t] =
                [IdleTask EXCEPT !.pc = "storageSync", !.kind = "performSyncCheck",
                                 !.sends = 1, !.snapshot = Some(clipboardHistory),
                                 !.passStart = IF tasks[t].pc = "idle" THEN <<>>
                                               ELSE tasks[t].passStart,
                                 !.passDone = tasks[t].passDone]]
         /\ network' = network \cup {UpdatedMessage(t, clipboardHistory)}
         /\ views' = Dispatched(views, UpdatedMessage(t, clipboardHistory))
         /\ syncStatus' = syncStatus
         /\ lastCall' = Call("ensureStorageSync", t, FALSE, TRUE, FALSE)
    ELSE LET op == Head(q)
             valid == validateOperation(op).valid
             start == IF tasks[t].pc = "idle" THEN syncStatus.pendingOperations
                      ELSE tasks[t].passStart
             next == [IdleTask EXCEPT !.pc = "reconcile", !.kind = "performSyncCheck",
                                      !.queue = Tail(q), !.live = live,
                                      !.passStart = start,
                                      !.passDone = Append(tasks[t].passDone, op)]
         IN  /\ lastCall' = Call("processPendingOperation", t, op.source = "background", valid, FALSE)
             /\ views' = views
             /\ IF valid
                THEN /\ syncStatus' = [syncStatus EXCEPT !.isSyncing = TRUE,
                                                         !.error = Undefined]
                     /\ network' = network \cup ContextSends(t, op)
                     /\ tasks' = [tasks EXCEPT ![t] =
                                    [next EXCEPT !.pc = "queryTabs", !.op = Some(op)]]
                ELSE /\ syncStatus' = syncStatus
                     /\ network' = network
                     /\ tasks' = [tasks EXCEPT ![t] = next]

\* The 5-second timer fires.
PerformSyncCheck(t) ==
    /\ tasks[t].pc = "idle"
    /\ ReconcileFrom(t, syncStatus.pendingOperations, TRUE)
    /\ UNCHANGED <<contentScript, copies, permissionVars, returned, storeVars,
                   now, nextUuid>>

\* The awaited processPendingOperation returned: the next operation.
ProcessNext(t) ==
    /\ tasks[t].pc = "reconcile"
    /\ ReconcileFrom(t, tasks[t].queue, tasks[t].live)
    /\ UNCHANGED <<contentScript, copies, permissionVars, returned, storeVars,
                   now, nextUuid>>

\* The callback of the watch on clipboardHistory.value (ClipboardHistory.vue
\* 38-44) runs, which it does once after the ref was written: the
\* component's history is a copy of the stored one.
WatchSees(c) ==
    /\ IsOpen(c)
    /\ views[c].dirty
    /\ views' = [views EXCEPT ![c].history = clipboardHistory,
                              ![c].dirty = FALSE]
    /\ lastCall' = Call("watch", 0, FALSE, TRUE, FALSE)
    /\ UNCHANGED <<contentScript, copies, permissionVars, returned, storeVars,
                   syncStatus, now, tasks, network, nextUuid>>

\* The runtime listener of the component of page c (ClipboardHistory.vue
\* 69-79, registered at the end of onMounted) runs for a clipboard-updated
\* the page was sent: the component's history is the one the message
\* carries. The listeners of the other pages run on their own, and the
\* send of the background has not settled yet.
RuntimeListenerReceives(c, m) ==
    /\ views[c].pc = "listening"
    /\ m \in views[c].inbox
    /\ views' = [views EXCEPT ![c].history = Value(m.history),
                              ![c].inbox = @ \ {m}]
    /\ lastCall' = [name |-> "clipboard-updated", task |-> m.task,
                    echo |-> FALSE, valid |-> TRUE, fault |-> FALSE,
                    history |-> Value(m.history)]
    /\ UNCHANGED <<contentScript, copies, permissionVars, returned, storeVars,
                   syncStatus, now, tasks, network, nextUuid>>

\* The awaited browser.runtime.sendMessage of a clipboard-updated settles,
\* once the listeners of the pages it was sent to have run (none of them
\* answers); where nothing listens the send rejects, which the sender
\* ignores. The handler of clipboard-copied that awaited the send goes on
\* to the tabs, whose content scripts keep no history, and ends.
RuntimeSendSettles(m) ==
    /\ m \in network
    /\ m.type = "clipboard-updated"
    /\ \A c \in DOMAIN views : IsOpen(c) => m \notin views[c].inbox
    /\ network' = network \ {m}
    /\ copies' = [h \in CopyHandlers |->
                     IF h = m.task THEN IdleCopy ELSE copies[h]]
    /\ lastCall' = Call("sendMessage", m.task, FALSE, TRUE, FALSE)
    /\ UNCHANGED <<contentScript, views, permissionVars, returned, storeVars,
                   syncStatus, now, tasks, nextUuid>>

\* ensureStorageSync: the next of its sends, one per context, or the end.
StorageSyncNext(t) ==
    /\ tasks[t].pc = "storageSync"
    /\ InFlight(t, "clipboard-updated") = {}
    /\ IF tasks[t].sends < Cardinality(Contexts)
       THEN /\ network' = network \cup {UpdatedMessage(t, Value(tasks[t].snapshot))}
            /\ views' = Dispatched(views,
                                   UpdatedMessage(t, Value(tasks[t].snapshot)))
            /\ tasks' = [tasks EXCEPT ![t].sends = @ + 1]
       ELSE /\ network' = network
            /\ views' = views
            /\ tasks' = [tasks EXCEPT ![t] = IdleTask]
    /\ lastCall' = Call("ensureStorageSync", t, FALSE, TRUE, FALSE)
    /\ UNCHANGED <<contentScript, copies, permissionVars, returned, storeVars,
                   syncStatus, now, nextUuid>>

\* ---------------------------------------------------------- specification
\* The calls of createItem, deleteItem and clearHistory: one of each from a
\* surface, one that fails validation, and one from the background.
Submission(call, item, itemId, source) ==
    [call |-> call, item |-> item, itemId |-> itemId, source |-> source]

Submissions ==
    {Submission("createItem", Item("a", "x"), "", src) :
        src \in {"popup", "background"}}
    \cup {Submission("deleteItem", Item("", ""), "a", "sidepanel"),
          Submission("clearHistory", Item("", ""), "", "content"),
          Submission("createItem", Item("a", ""), "", "popup")}

Next ==
    \/ Tick
    \/ \E t \in TaskIds, c \in Submissions :
          \/ c.call = "createItem" /\ CreateItem(t, c.item, c.source)
          \/ c.call = "deleteItem" /\ DeleteItem(t, c.itemId, c.source)
          \/ c.call = "clearHistory" /\ ClearHistory(t, c.source)
    \/ \E t \in TaskIds : QueryTabs(t)
    \/ \E m \in network : SurfaceReceives(m)
    \/ \E m \in network : SendFails(m)
    \/ \E t \in TaskIds, fault \in BOOLEAN : Settle(t, fault)
    \/ \E t \in TaskIds : Complete(t)
    \/ \E t \in TaskIds : Retry(t)
    \/ \E op \in IncomingOperations : OnSyncOperation(op)
    \/ \E t \in TaskIds : PerformSyncCheck(t)
    \/ \E t \in TaskIds : ProcessNext(t)
    \/ \E c \in UiContexts, m \in network : RuntimeListenerReceives(c, m)
    \/ \E m \in network : RuntimeSendSettles(m)
    \/ \E t \in TaskIds : StorageSyncNext(t)
    \/ \E c \in UiContexts : WatchSees(c)

Spec == Init /\ [][Next]_vars

\* A broadcast on its own: the calls and what becomes of their sends,
\* whichever surfaces are open, with no operation coming in and no
\* reconciliation pass.
InitBroadcast ==
    \E open \in SUBSET {"popup", "sidepanel"} :
        InitWith([items |-> <<>>, maxItems |-> DEFAULT_MAX_ITEMS], {1},
                 {ModuleDefault(FALSE)}, open)

NextBroadcast ==
    \/ Tick
    \/ \E t \in TaskIds, c \in Submissions :
          \/ c.call = "createItem" /\ CreateItem(t, c.item, c.source)
          \/ c.call = "deleteItem" /\ DeleteItem(t, c.itemId, c.source)
          \/ c.call = "clearHistory" /\ ClearHistory(t, c.source)
    \/ \E t \in TaskIds : QueryTabs(t)
    \/ \E m \in network : SurfaceReceives(m)
    \/ \E m \in network : SendFails(m)
    \/ \E t \in TaskIds, fault \in BOOLEAN : Settle(t, fault)
    \/ \E t \in TaskIds : Complete(t)
    \/ \E t \in TaskIds : Retry(t)

SpecBroadcast == InitBroadcast /\ [][NextBroadcast]_vars

\* ------------------------------------------------ the history on its own
\* The operations a history is exercised with: every type, on items a and b
\* and on the first generated id, from a surface and from the background,
\* and malformed ones.
HistoryItems == {Item("a", "x"), Item("a", "y"), Item("b", "x")}

HistoryOperations ==
    {Operation("create", i.id, Some(i), 1, src) :
        i \in HistoryItems, src \in {"popup", "background"}}
    \cup {Operation("update", i.id, Some(i), 1, src) :
        i \in HistoryItems, src \in {"sidepanel", "background"}}
    \cup {Operation("delete", id, Undefined, 1, src) :
        id \in {"a", "b", Uuid(1)}, src \in {"content", "background"}}
    \cup {Operation("clear", "", Undefined, 1, src) :
        src \in {"popup", "background"}}
    \cup {Operation("update", "b", Some(Item("a", "y")), 1, "popup"),
          Operation("create", "", Some(Item("", "x")), 1, "popup"),
          Operation("create", "a", Undefined, 1, "popup"),
          Operation("delete", "", Undefined, 1, "popup"),
          Operation("clear", "", Undefined, 0, "popup")}

\* What the coordinator broadcasts, and so what a surface receives: the
\* operations that pass validation.
BroadcastOperations == {op \in HistoryOperations : validateOperation(op).valid}

\* ClipboardHistory.vue, onMessage('sync-operation'), for an operation the
\* coordinator broadcast.
SurfaceApplies(op) ==
    /\ clipboardHistory' = handleSyncOperation(clipboardHistory, op)
    /\ defaultHistory' = DefaultAfterSyncOperation(defaultHistory, clipboardHistory, op)
    /\ \E c \in UiContexts :
          /\ IsOpen(c)
          /\ views' = [Written(views) EXCEPT ![c].history = clipboardHistory']
    /\ lastCall' = [name |-> "handleSyncOperation", task |-> 0,
                     echo |-> op.source = "background", valid |-> TRUE,
                     fault |-> FALSE, operation |-> op]
    /\ UNCHANGED <<contentScript, copies, permissionVars, returned, syncStatus,
                   now, tasks, network, nextUuid>>

\* The history is empty, that of a first run or one that was stored, and
\* the popup is closed or open.
InitHistory ==
    \E m \in PersistedMaxItems, open \in {{}, {"popup"}} :
        InitWith([items |-> <<>>, maxItems |-> m], {1},
                 InitialDefaults([items |-> <<>>, maxItems |-> m]), open)

\* A run of the history works on item a and on the generated ids; item b is
\* left to the one-step checks of the appliers.
RunOperations ==
    {op \in HistoryOperations :
        /\ ~(op.type = "delete" /\ op.itemId = "b")
        /\ (op.data # Undefined => Value(op.data).id # "b")}

NextHistory ==
    \/ \E c \in {"x"} : AddToHistory(c)
    \/ \E id \in {"a", Uuid(1)} : RemoveFromHistory(id)
    \/ StorageClearHistory
    \/ \E op \in RunOperations : OnSyncOperation(op)
    \/ \E op \in RunOperations \cap BroadcastOperations : SurfaceApplies(op)

SpecHistory == InitHistory /\ [][NextHistory]_vars

\* Every history state: items that may repeat an id, and any number as
\* maxItems (ensureValidHistory accepts every number).
MaxLen == 2

RECURSIVE SeqsUpTo(_, _)
SeqsUpTo(S, n) ==
    IF n = 0 THEN {<<>>}
    ELSE SeqsUpTo(S, n - 1)
         \cup {Append(q, x) : q \in {r \in SeqsUpTo(S, n - 1) : Len(r) = n - 1}, x \in S}

AnyMaxItems == {-1, 0} \cup PersistedMaxItems

InitApply ==
    \E m \in AnyMaxItems, q \in SeqsUpTo(HistoryItems, MaxLen),
       open \in {{}, {"popup"}} :
        InitWith([items |-> q, maxItems |-> m], {1},
                 InitialDefaults([items |-> q, maxItems |-> m]), open)

NextApply ==
    \/ \E op \in HistoryOperations : OnSyncOperation(op)
    \/ \E op \in BroadcastOperations : SurfaceApplies(op)

SpecApply == InitApply /\ [][NextApply]_vars

\* ------------------------------------------------- the validator on its own
\* The operations validateOperation is exercised with: every field present
\* or missing, well-formed or not. A timestamp of 0 stands for 0 and for a
\* missing one (both are falsy).
ValidationItems == {Item(id, content) : id \in {"", "a"}, content \in {"", "x"}}

ValidationInputs ==
    {Operation(type, itemId, data, timestamp, source) :
        type \in OperationTypes \cup {"", "move"},
        itemId \in {"", "a"},
        data \in {Undefined} \cup {Some(i) : i \in ValidationItems},
        timestamp \in {-1, 0, 1},
        source \in Sources \cup {"", "devtools"}}

\* One call of validateOperation.
ValidateOperation(op) ==
    /\ returned = NothingReturned
    /\ returned' = [fn |-> "validateOperation", operation |-> op,
                    value |-> validateOperation(op)]
    /\ lastCall' = Call("validateOperation", 0, op.source = "background",
                        validateOperation(op).valid, FALSE)
    /\ UNCHANGED <<surfaceVars, permissionVars, storeVars, syncStatus, now, tasks,
                   network, nextUuid>>

NextValidate == \E op \in ValidationInputs : ValidateOperation(op)

SpecValidate == Init /\ [][NextValidate]_vars

\* ------------------------------------------------------ conflict resolution
MaxBatch == 3

\* Array.prototype.sort((a, b) => a.timestamp - b.timestamp), which is
\* stable: op goes after every element whose timestamp is not greater.
RECURSIVE InsertByTimestamp(_, _)
InsertByTimestamp(sorted, op) ==
    IF sorted = <<>> THEN <<op>>
    ELSE IF Head(sorted).timestamp <= op.timestamp
         THEN <<Head(sorted)>> \o InsertByTimestamp(Tail(sorted), op)
         ELSE <<op>> \o sorted

RECURSIVE SortByTimestamp(_)
SortByTimestamp(operations) ==
    IF operations = <<>> THEN <<>>
    ELSE InsertByTimestamp(
            SortByTimestamp(SubSeq(operations, 1, Len(operations) - 1)),
            operations[Len(operations)])

\* The loop of resolveConflicts over the sorted operations. The error text
\* of a conflict names the item; it is represented by the item's id.
RECURSIVE Classify(_, _)
Classify(sortedOperations, processedIds) ==
    IF sortedOperations = <<>> THEN <<>>
    ELSE LET operation == Head(sortedOperations)
         IN  IF operation.itemId # "" /\ operation.itemId \in processedIds
             THEN <<[resolved |-> FALSE, operation |-> Undefined,
                     error |-> Some(operation.itemId)]>>
                  \o Classify(Tail(sortedOperations), processedIds)
             ELSE <<[resolved |-> TRUE, operation |-> Some(operation),
                     error |-> Undefined]>>
                  \o Classify(Tail(sortedOperations),
                              IF operation.itemId # ""
                              THEN processedIds \cup {operation.itemId}
                              ELSE processedIds)

\* Mutant of resolveConflicts: the batch classified in its input order.
resolveConflictsUnsorted(operations) == Classify(operations, {})

\* SyncConflictResolver.resolveConflicts
resolveConflicts(operations) == Classify(SortByTimestamp(operations), {})

\* The operations of a batch: two items, two timestamps, two operations on
\* an item that differ in type only, and a clear (no itemId).
ConflictOperations ==
    {Operation(type, id, Undefined, ts, "popup") :
        type \in {"create", "delete"}, id \in {"a", "b"}, ts \in {1, 2}}
    \cup {Operation("clear", "", Undefined, ts, "popup") : ts \in {1, 2}}

\* One call of resolveConflicts.
ResolveConflicts(operations) ==
    /\ returned = NothingReturned
    /\ returned' = [fn |-> "resolveConflicts", operations |-> operations,
                    value |-> resolveConflicts(operations)]
    /\ lastCall' = Call("resolveConflicts", 0, FALSE, TRUE, FALSE)
    /\ UNCHANGED <<surfaceVars, permissionVars, storeVars, syncStatus, now, tasks,
                   network, nextUuid>>

NextResolve ==
    \E operations \in SeqsUpTo(ConflictOperations, MaxBatch) :
        ResolveConflicts(operations)

SpecResolve == Init /\ [][NextResolve]_vars

\* ------------------------------------------------ creates through addToHistory
MaxCreates == 3

\* The capacities a sequence of creates is run against.
Capacities == (0..(MaxCapacity + 1)) \cup {DEFAULT_MAX_ITEMS}

\* The items created so far, oldest first.
Created == IF returned.fn = "addToHistory" THEN returned.created ELSE <<>>

\* addToHistory(content), with the item it made added to the record of the
\* items created.
AddToHistoryNext(content) ==
    /\ nextUuid < MaxCreates
    /\ nextUuid' = nextUuid + 1
    /\ LET newItem == Item(Uuid(nextUuid + 1), content)
       IN  /\ clipboardHistory' = addToHistoryResult(clipboardHistory, newItem)
           /\ defaultHistory' =
                 DefaultAfterCopy(DefaultAfterWrite(defaultHistory, "assign",
                                                     clipboardHistory'.items))
           /\ returned' = [fn |-> "addToHistory",
                           created |-> Append(Created, newItem)]
    /\ views' = Written(views)
    /\ lastCall' = Call("addToHistory", 0, FALSE, TRUE, FALSE)
    /\ UNCHANGED <<contentScript, copies, permissionVars, syncStatus, now, tasks,
                   network>>

InitAdd ==
    \E m \in Capacities :
        InitWith([items |-> <<>>, maxItems |-> m], {1},
                 InitialDefaults([items |-> <<>>, maxItems |-> m]), {})

NextAdd == \E content \in {"a", "b", "c"} : AddToHistoryNext(content)

SpecAdd == InitAdd /\ [][NextAdd]_vars

\* ---------------------------------------------------- the permission manager
\* In this part the clock counts days: Date.now() is a multiple of
\* 24 * 60 * 60 * 1000 ms, and the two intervals of the code are 7 and 30.
SEVEN_DAYS == 7
THIRTY_DAYS == 30

\* Date.now() when the extension first runs: long after the epoch, so that
\* a lastChecked of 0 is more than thirty days back.
FirstRun == 100

\* The instants at which something happens: the first run, and the days on
\* either side of the two intervals after it.
Instants ==
    {FirstRun + d : d \in {0, SEVEN_DAYS, SEVEN_DAYS + 1, THIRTY_DAYS, THIRTY_DAYS + 1}}

\* What the browser does with a probe: the clipboard is read; the read is
\* refused with NotAllowedError; the user refuses browser.permissions.request;
\* the read fails for another reason; browser.permissions.contains or
\* browser.permissions.request itself rejects, with an error that is not
\* NotAllowedError, and no read is made.
ProbeOutcomes ==
    {"read", "NotAllowedError", "refused", "otherError", "permissionsError"}

\* Mutant of queryClipboardPermission: every failure of the read counts as
\* a refusal.
queryClipboardPermissionStrict(outcome) == outcome = "read"

\* PermissionManager.queryClipboardPermission: its value for each outcome.
queryClipboardPermission(outcome) ==
    CASE outcome = "read" -> TRUE
      [] outcome = "NotAllowedError" -> FALSE
      [] outcome = "refused" -> FALSE
      [] OTHER -> TRUE

\* What a PermissionManager call returned: its value, the number of probes
\* it made, the stored record before and after it, the times it was called
\* and returned at, and whether it directly follows a checkClipboardPermission
\* made on the default record.
PermissionReturn(fn, value, probes, before, after, called, at, afterFirstCheck) ==
    [fn |-> fn, value |-> value, probes |-> probes, before |-> before,
     after |-> after, called |-> called, at |-> at,
     afterFirstCheck |-> afterFirstCheck]

\* The paths of checkClipboardPermission: what it returns at once, or the
\* branch in which it probes.
CheckPath(status, time) ==
    IF status.clipboard = "granted" THEN "true"
    ELSE IF status.clipboard = "denied" /\ status.hasRequested THEN "false"
    ELSE IF ~status.hasRequested THEN "first"
    ELSE IF time - status.lastChecked > SEVEN_DAYS THEN "recheck"
    ELSE "false"

\* A call label for a PermissionManager step; the probe's label also says
\* what the browser answered.
PermissionCall(name) == Call(name, 0, FALSE, TRUE, FALSE)

ProbeCall(outcome) ==
    [name |-> "queryClipboardPermission", task |-> 0, echo |-> FALSE,
     valid |-> TRUE, fault |-> FALSE, outcome |-> outcome]

\* Mutant of ProbedStatus: the outcome stored without the mark that the
\* browser was asked.
ProbedStatusNotRequested(browserPermission, time) ==
    [clipboard |-> IF browserPermission THEN "granted" ELSE "denied",
     lastChecked |-> time, hasRequested |-> FALSE]

\* The record stored after a probe (permissions.ts 64-68, 82-86, 114-118).
ProbedStatus(browserPermission, time) ==
    [clipboard |-> IF browserPermission THEN "granted" ELSE "denied",
     lastChecked |-> time, hasRequested |-> TRUE]

\* A call that awaits a probe: which function, in which branch, begun when
\* and on which record, after how many probes.
Probing(fn, branch, probes) ==
    [pc |-> "probing", fn |-> fn, branch |-> branch, started |-> now,
     before |-> permissionStatus, probes |-> probes]

\* checkClipboardPermission up to its return or to its await of the probe:
\* what the call returns at once, if it does, and the call left in progress.
CheckBegins ==
    LET path == CheckPath(permissionStatus, now)
    IN  IF path \in {"true", "false"}
        THEN [returned |-> PermissionReturn("checkClipboardPermission",
                              path = "true", 0, permissionStatus,
                              permissionStatus, now, now, FALSE),
              permissionCall |-> permissionCall]
        ELSE [returned |-> NothingReturned,
              permissionCall |-> Probing("checkClipboardPermission", path, 0)]

\* Mutant of CheckClipboardPermission: the browser is asked whatever the
\* stored record says.
CheckClipboardPermissionAlwaysProbes ==
    /\ permissionCall.pc = "idle"
    /\ permissionCall' = Probing("checkClipboardPermission", "first", 0)
    /\ returned' = NothingReturned
    /\ lastCall' = PermissionCall("checkClipboardPermission")
    /\ UNCHANGED <<surfaceVars, permissionStatus, storeVars, syncStatus,
                   now, tasks, network, nextUuid>>

\* checkClipboardPermission, called while no other call is in progress.
CheckClipboardPermission ==
    /\ permissionCall.pc = "idle"
    /\ returned' = CheckBegins.returned
    /\ permissionCall' = CheckBegins.permissionCall
    /\ lastCall' = PermissionCall("checkClipboardPermission")
    /\ UNCHANGED <<surfaceVars, permissionStatus, storeVars, syncStatus,
                   now, tasks, network, nextUuid>>

\* requestClipboardPermission up to its return or to its first await: the
\* check it begins with returns true, or returns false (and the request's
\* own probe follows), or awaits a probe of its own. What the call returns
\* at once, if it does, and the call left in progress.
RequestBegins ==
    LET path == CheckPath(permissionStatus, now)
    IN  IF path = "true"
        THEN [returned |-> PermissionReturn("requestClipboardPermission",
                              TRUE, 0, permissionStatus, permissionStatus,
                              now, now, FALSE),
              permissionCall |-> permissionCall]
        ELSE [returned |-> NothingReturned,
              permissionCall |->
                  Probing("requestClipboardPermission",
                          IF path = "false" THEN "request" ELSE path, 0)]

RequestClipboardPermission ==
    /\ permissionCall.pc = "idle"
    /\ returned' = RequestBegins.returned
    /\ permissionCall' = RequestBegins.permissionCall
    /\ lastCall' = PermissionCall("requestClipboardPermission")
    /\ UNCHANGED <<surfaceVars, permissionStatus, storeVars, syncStatus,
                   now, tasks, network, nextUuid>>

\* The awaited queryClipboardPermission answers: the record is stored and
\* the outcome returned. The recheck stamps the record with the time the
\* call began, the other branches with the time of the answer. A request
\* whose check probed and was refused goes on to its own probe.
ProbeAnswered(call, outcome) ==
    LET browserPermission == queryClipboardPermission(outcome)
        stored == ProbedStatus(browserPermission,
                               IF call.branch = "recheck"
                               THEN call.started ELSE now)
        goesOn == /\ call.fn = "requestClipboardPermission"
                  /\ call.branch \in {"first", "recheck"}
                  /\ ~browserPermission
    IN  [permissionStatus |-> stored,
         permissionCall |->
             IF goesOn
             THEN [call EXCEPT !.branch = "request", !.probes = @ + 1]
             ELSE NoPermissionCall,
         returned |->
             IF goesOn
             THEN NothingReturned
             ELSE PermissionReturn(call.fn, browserPermission, call.probes + 1,
                                   call.before, stored, call.started, now,
                                   FALSE)]

\* The probe of the call in progress answers.
ProbeAnswers(outcome) ==
    /\ permissionCall.pc = "probing"
    /\ LET r == ProbeAnswered(permissionCall, outcome)
       IN  /\ permissionStatus' = r.permissionStatus
           /\ permissionCall' = r.permissionCall
           /\ returned' = r.returned
    /\ lastCall' = ProbeCall(outcome)
    /\ UNCHANGED <<surfaceVars, storeVars, syncStatus, now, tasks,
                   network, nextUuid>>

\* Mutant of shouldShowPermissionRequest: the shorter of the two intervals.
shouldShowAfterSevenDays(status, time) ==
    IF status.clipboard = "granted" THEN FALSE
    ELSE IF ~status.hasRequested THEN TRUE
    ELSE IF status.clipboard = "denied"
         THEN time - status.lastChecked > SEVEN_DAYS
         ELSE FALSE

\* Mutant of shouldShowPermissionRequest: the request shown whenever the
\* permission is not granted.
shouldShowUnlessGranted(status, time) == status.clipboard # "granted"

\* PermissionManager.shouldShowPermissionRequest
shouldShowPermissionRequest(status, time) ==
    IF status.clipboard = "granted" THEN FALSE
    ELSE IF ~status.hasRequested THEN TRUE
    ELSE IF status.clipboard = "denied"
         THEN time - status.lastChecked > THIRTY_DAYS
         ELSE FALSE

ShouldShowPermissionRequest ==
    /\ returned' = PermissionReturn("shouldShowPermissionRequest",
                       shouldShowPermissionRequest(permissionStatus, now), 0,
                       permissionStatus, permissionStatus, now, now,
                       /\ returned.fn = "checkClipboardPermission"
                       /\ returned.before = DEFAULT_PERMISSION_STATUS)
    /\ lastCall' = PermissionCall("shouldShowPermissionRequest")
    /\ UNCHANGED <<surfaceVars, permissionVars, storeVars, syncStatus,
                   now, tasks, network, nextUuid>>

\* Mutant of ResetPermissionStatus: the state reset, the rest kept.
ResetPermissionStatusStateOnly ==
    /\ permissionStatus' = [permissionStatus EXCEPT !.clipboard = "prompt"]
    /\ returned' = PermissionReturn("resetPermissionStatus", FALSE, 0,
                       permissionStatus,
                       [permissionStatus EXCEPT !.clipboard = "prompt"],
                       now, now, FALSE)
    /\ lastCall' = PermissionCall("resetPermissionStatus")
    /\ UNCHANGED <<surfaceVars, permissionCall, storeVars, syncStatus,
                   now, tasks, network, nextUuid>>

\* PermissionManager.resetPermissionStatus (it returns nothing: the value
\* recorded for it is FALSE)
ResetPermissionStatus ==
    /\ permissionStatus' = DEFAULT_PERMISSION_STATUS
    /\ returned' = PermissionReturn("resetPermissionStatus", FALSE, 0,
                       permissionStatus, DEFAULT_PERMISSION_STATUS,
                       now, now, FALSE)
    /\ lastCall' = PermissionCall("resetPermissionStatus")
    /\ UNCHANGED <<surfaceVars, permissionCall, storeVars, syncStatus,
                   now, tasks, network, nextUuid>>

\* Days pass between the calls, and while a probe is awaited.
DaysPass ==
    /\ \E later \in Instants : later > now /\ now' = later
    /\ lastCall' = Other
    /\ UNCHANGED <<surfaceVars, permissionVars, returned, storeVars,
                   syncStatus, tasks, network, nextUuid>>

\* Every stored record: a state, a time of the last check (0, or one of the
\* instants), and whether the browser was ever asked.
AnyPermissionStatus ==
    [clipboard : {"granted", "denied", "prompt"},
     lastChecked : {0} \cup Instants,
     hasRequested : BOOLEAN]

InitPermissionWith(status, time) ==
    /\ clipboardHistory = [items |-> <<>>, maxItems |-> DEFAULT_MAX_ITEMS]
    /\ defaultHistory = ModuleDefault(FALSE)
    /\ now = time
    /\ syncStatus = [isSyncing |-> FALSE, lastSyncTime |-> time,
                     pendingOperations |-> <<>>, error |-> Undefined]
    /\ tasks = [t \in {1} |-> IdleTask]
    /\ network = {}
    /\ nextUuid = 0
    /\ lastCall = Other
    /\ permissionStatus = status
    /\ permissionCall = NoPermissionCall
    /\ returned = NothingReturned
    /\ contentScript = ContentScriptLoaded
    /\ views = NoViews
    /\ copies = NoCopies

InitPermission == InitPermissionWith(DEFAULT_PERMISSION_STATUS, FirstRun)

NextPermission ==
    \/ CheckClipboardPermission
    \/ RequestClipboardPermission
    \/ \E outcome \in ProbeOutcomes : ProbeAnswers(outcome)
    \/ ShouldShowPermissionRequest
    \/ ResetPermissionStatus
    \/ DaysPass

SpecPermission == InitPermission /\ [][NextPermission]_vars

\* The same calls on every stored record, at every instant not before its
\* lastChecked.
InitPermissionAny ==
    \E status \in AnyPermissionStatus, time \in Instants :
        /\ status.lastChecked <= time
        /\ InitPermissionWith(status, time)

SpecPermissionAny == InitPermissionAny /\ [][NextPermission]_vars

\* ------------------------------------------------ the stored value, loaded
\* What storage may hold under the key of the history is any JSON value. A
\* value is written here with its kind: an array, a string, undefined, null,
\* an integer, NaN, or a number with a fractional part (floor + 1/2).
JsArray(q) == [kind |-> "array", value |-> q]
JsString(str) == [kind |-> "string", value |-> str]
JsInteger(n) == [kind |-> "integer", value |-> n]
JsFraction(floor) == [kind |-> "fraction", floor |-> floor]
JsUndefined == [kind |-> "undefined"]
JsNull == [kind |-> "null"]
JsNaN == [kind |-> "NaN"]

\* Array.isArray and typeof
IsArray(v) == v.kind = "array"

TypeOf(v) ==
    CASE v.kind \in {"integer", "fraction", "NaN"} -> "number"
      [] v.kind = "string" -> "string"
      [] v.kind = "undefined" -> "undefined"
      [] OTHER -> "object"

DEFAULT_HISTORY == [items |-> JsArray(<<>>), maxItems |-> JsInteger(DEFAULT_MAX_ITEMS)]

\* ensureValidHistory on any stored object: items that is not an array
\* becomes [], maxItems that is not of type number becomes the default.
ensureValidHistoryValue(value) ==
    [items |-> IF ~IsArray(value.items) THEN JsArray(<<>>) ELSE value.items,
     maxItems |-> IF TypeOf(value.maxItems) # "number"
                  THEN DEFAULT_HISTORY.maxItems
                  ELSE value.maxItems]

\* The stored objects loadHistory is exercised with: items an array of up
\* to MaxLen items or malformed, maxItems well-formed or malformed.
StoredItems ==
    {JsArray(q) : q \in SeqsUpTo(HistoryItems, MaxLen)}
    \cup {JsUndefined, JsNull, JsString("x")}

StoredMaxItems ==
    {JsInteger(n) : n \in {-1, 0, 1, DEFAULT_MAX_ITEMS}}
    \cup {JsUndefined, JsNull, JsString("50"), JsFraction(1), JsNaN}

StoredValues == [items : StoredItems, maxItems : StoredMaxItems]

\* loadHistory: the stored value normalised, written back and returned.
LoadHistory ==
    /\ returned = NothingReturned
    /\ clipboardHistory' = ensureValidHistoryValue(clipboardHistory)
    /\ defaultHistory' = DefaultAfterCopy(defaultHistory)
    /\ returned' = [fn |-> "loadHistory", stored |-> clipboardHistory,
                    value |-> ensureValidHistoryValue(clipboardHistory)]
    /\ views' = Written(views)
    /\ lastCall' = Call("loadHistory", 0, FALSE, TRUE, FALSE)
    /\ UNCHANGED <<contentScript, copies, permissionVars, syncStatus, now, tasks,
                   network, nextUuid>>

InitLoad ==
    /\ clipboardHistory \in StoredValues
    /\ defaultHistory = ModuleDefault(FALSE)
    /\ now = 1
    /\ syncStatus = [isSyncing |-> FALSE, lastSyncTime |-> 1,
                     pendingOperations |-> <<>>, error |-> Undefined]
    /\ tasks = [t \in {1} |-> IdleTask]
    /\ network = {}
    /\ nextUuid = 0
    /\ lastCall = Other
    /\ permissionStatus = DEFAULT_PERMISSION_STATUS
    /\ permissionCall = NoPermissionCall
    /\ returned = NothingReturned
    /\ contentScript = ContentScriptLoaded
    /\ views = NoViews
    /\ copies = NoCopies

NextLoad == LoadHistory

SpecLoad == InitLoad /\ [][NextLoad]_vars

\* ---------------------------------------------------- the health of a status
\* The age, in milliseconds, below which the last sync counts as recent.
HealthyWithin == 60000

\* !status.error: no error, or an empty message
NoError(status) == ~IsDefined(status.error) \/ Value(status.error) = ""

\* Mutant of isHealthy: the pending operations are not looked at.
isHealthyWhateverPends(status, time) ==
    /\ ~status.isSyncing
    /\ NoError(status)
    /\ time - status.lastSyncTime < HealthyWithin

\* SyncConflictResolver.isHealthy, with Date.now() as its second argument
isHealthy(status, time) ==
    /\ ~status.isSyncing
    /\ NoError(status)
    /\ Len(status.pendingOperations) = 0
    /\ time - status.lastSyncTime < HealthyWithin

\* The age, in milliseconds, above which getHealthStatus reports that there
\* was no recent sync.
StaleAfter == 300000

\* SyncConflictResolver.getHealthStatus, with Date.now() as its second
\* argument: the issues found, in the order they are tested (the messages
\* without the error text and the count they include), a recommendation for
\* each issue but the first, and healthy when there is no issue.
getHealthStatus(status, time) ==
    LET syncing == IF status.isSyncing THEN <<"Currently syncing">> ELSE <<>>
        failed == IF ~NoError(status) THEN <<"Sync error">> ELSE <<>>
        pending == IF Len(status.pendingOperations) > 0
                   THEN <<"pending operations">> ELSE <<>>
        stale == IF time - status.lastSyncTime > StaleAfter
                 THEN <<"No recent sync activity">> ELSE <<>>
        issues == syncing \o failed \o pending \o stale
    IN  [healthy |-> Len(issues) = 0,
         issues |-> issues,
         recommendations |->
            (IF failed # <<>> THEN <<"Check network connection and try again">> ELSE <<>>)
            \o (IF pending # <<>> THEN <<"Wait for pending operations to complete">> ELSE <<>>)
            \o (IF stale # <<>> THEN <<"Check if sync is working properly">> ELSE <<>>)]

\* The statuses and the clocks isHealthy is exercised with: every
\* combination of syncing, error and pending operations, a last sync at
\* LastSync, and clocks on both sides of one minute and of five minutes
\* after it.
LastSync == 1000

HealthStatuses ==
    [isSyncing : BOOLEAN,
     lastSyncTime : {LastSync},
     pendingOperations : {<<>>, <<Operation("delete", "a", Undefined, 1, "popup")>>},
     error : {Undefined, Some(""), Some("Unknown sync error")}]

HealthInstants ==
    {LastSync + age : age \in {0, 59999, 60000, 60001, 300000, 300001}}

\* ClipboardSyncManager.isHealthy
IsHealthy ==
    /\ returned = NothingReturned
    /\ returned' = [fn |-> "isHealthy", status |-> syncStatus, at |-> now,
                    value |-> isHealthy(syncStatus, now)]
    /\ lastCall' = Call("isHealthy", 0, FALSE, TRUE, FALSE)
    /\ UNCHANGED <<surfaceVars, permissionVars, storeVars, syncStatus,
                   now, tasks, network, nextUuid>>

\* ClipboardSyncManager.getHealthStatus
GetHealthStatus ==
    /\ returned = NothingReturned
    /\ returned' = [fn |-> "getHealthStatus", status |-> syncStatus, at |-> now,
                    value |-> getHealthStatus(syncStatus, now)]
    /\ lastCall' = Call("getHealthStatus", 0, FALSE, TRUE, FALSE)
    /\ UNCHANGED <<surfaceVars, permissionVars, storeVars, syncStatus,
                   now, tasks, network, nextUuid>>

InitHealth ==
    /\ syncStatus \in HealthStatuses
    /\ now \in HealthInstants
    /\ clipboardHistory = [items |-> <<>>, maxItems |-> DEFAULT_MAX_ITEMS]
    /\ defaultHistory = ModuleDefault(FALSE)
    /\ tasks = [t \in {1} |-> IdleTask]
    /\ network = {}
    /\ nextUuid = 0
    /\ lastCall = Other
    /\ permissionStatus = DEFAULT_PERMISSION_STATUS
    /\ permissionCall = NoPermissionCall
    /\ returned = NothingReturned
    /\ contentScript = ContentScriptLoaded
    /\ views = NoViews
    /\ copies = NoCopies

NextHealth == IsHealthy \/ GetHealthStatus

SpecHealth == InitHealth /\ [][NextHealth]_vars

\* ------------------------------------------------------ the content script
\* What the browser does with the read of isPermissionActuallyGranted: the
\* clipboardRead permission is not contained (no read is made); the
\* clipboard is read; the read is refused with NotAllowedError; the read
\* fails for another reason; browser.permissions.contains itself rejects,
\* with an error that is not NotAllowedError (no read is made).
ActualOutcomes ==
    {"notContained", "read", "NotAllowedError", "otherError", "permissionsError"}

\* PermissionManager.isPermissionActuallyGranted: its value for each
\* outcome. Every error but NotAllowedError counts as granted.
isPermissionActuallyGranted(outcome) ==
    outcome \in {"read", "otherError", "permissionsError"}

\* What the read of a handler's timer gives: a text, no text, a refusal
\* with NotAllowedError, another error.
ReadOutcomes == {"text", "empty", "NotAllowedError", "otherError"}

\* The text on the clipboard.
CopiedText == "x"

\* The steps of the handlers, as lastCall names them.
HandlerSteps ==
    {"copy", "paste", "isPermissionActuallyGranted",
     "queryClipboardPermission", "await", "setTimeout", "readText"}

\* A step of handler h, of an event of that kind: whether the step read the
\* clipboard, whether it called requestClipboardPermission, and the
\* messages it sent.
HandlerStep(name, h, kind, read, request, sent) ==
    [name |-> name, task |-> h, echo |-> FALSE, valid |-> TRUE,
     fault |-> FALSE, kind |-> kind, read |-> read, request |-> request,
     sent |-> sent]

\* The call a handler is left awaiting when it calls a PermissionManager
\* function that begins as begun: none if the function returned at once.
AwaitedCall(begun) ==
    IF begun.returned.fn = "none" THEN begun.permissionCall
    ELSE NoPermissionCall

\* A handler after a PermissionManager call whose value it acts on: it
\* awaits the probe (pc awaiting), or the call has returned and it goes on
\* (pc onTrue) or ends.
AfterCall(handler, begun, awaiting, onTrue) ==
    IF begun.returned.fn = "none"
    THEN [handler EXCEPT !.pc = awaiting, !.call = begun.permissionCall]
    ELSE IF begun.returned.value THEN [handler EXCEPT !.pc = onTrue]
    ELSE IdleHandler

\* The flag after a PermissionManager call whose value is assigned to it.
FlagAfterCall(flag, begun) ==
    IF begun.returned.fn = "none" THEN flag ELSE begun.returned.value

\* A copy event (index.ts 58-63): a handler begins and awaits
\* isPermissionActuallyGranted.
CopyEvent(h) ==
    /\ h # 0
    /\ contentScript.handlers[h].pc = "idle"
    /\ contentScript' = [contentScript EXCEPT
                            !.handlers[h] = [kind |-> "copy", pc |-> "testing",
                                             call |-> NoPermissionCall]]
    /\ lastCall' = HandlerStep("copy", h, "copy", FALSE, FALSE, <<>>)
    /\ UNCHANGED <<views, copies, permissionVars, returned, storeVars,
                   syncStatus, now, tasks, network, nextUuid>>

\* A paste event (index.ts 133-177): the handler returns if the extension
\* context is no longer valid; with the flag unset it awaits
\* isPermissionActuallyGranted; with the flag set it starts its timer.
PasteEvent(h, contextValid) ==
    /\ h # 0
    /\ contentScript.handlers[h].pc = "idle"
    /\ contentScript' =
          [contentScript EXCEPT
              !.handlers[h] =
                  IF ~contextValid THEN IdleHandler
                  ELSE [kind |-> "paste",
                        pc |-> IF contentScript.hasClipboardPermission
                               THEN "timer" ELSE "testing",
                        call |-> NoPermissionCall]]
    /\ lastCall' = HandlerStep("paste", h, "paste", FALSE, FALSE, <<>>)
    /\ UNCHANGED <<views, copies, permissionVars, returned, storeVars,
                   syncStatus, now, tasks, network, nextUuid>>

\* isPermissionActuallyGranted answers the handler that awaits it.
\* initializePermission (27-52): the flag is the answer; granted and the
\* stored state not granted, requestClipboardPermission is awaited; not
\* granted and shouldShowPermissionRequest, the flag is the value of
\* checkClipboardPermission.
\* The copy listener (63-84): granted, the flag is set and the timer
\* started; not granted and the flag unset, a request is made if
\* shouldShowPermissionRequest says so and the handler returns otherwise;
\* not granted and the flag set, the timer is started.
\* The paste listener (142-148): the flag is the answer, and the timer is
\* started if it is true.
ActuallyGrantedAnswers(h, outcome) ==
    /\ contentScript.handlers[h].pc = "testing"
    /\ LET handler == contentScript.handlers[h]
           flag == contentScript.hasClipboardPermission
           actuallyGranted == isPermissionActuallyGranted(outcome)
           shows == shouldShowPermissionRequest(permissionStatus, now)
           requests ==
               \/ /\ handler.kind = "load"
                  /\ actuallyGranted
                  /\ permissionStatus.clipboard # "granted"
               \/ /\ handler.kind = "copy"
                  /\ ~actuallyGranted /\ ~flag /\ shows
           checks == handler.kind = "load" /\ ~actuallyGranted /\ shows
       IN  /\ contentScript' =
                 [hasClipboardPermission |->
                      IF handler.kind = "copy"
                      THEN IF actuallyGranted THEN TRUE
                           ELSE IF requests THEN FlagAfterCall(flag, RequestBegins)
                           ELSE flag
                      ELSE IF checks THEN FlagAfterCall(actuallyGranted, CheckBegins)
                      ELSE actuallyGranted,
                  handlers |->
                      [contentScript.handlers EXCEPT
                          ![h] =
                              IF handler.kind = "load"
                              THEN IF requests
                                   THEN [handler EXCEPT
                                            !.pc = IF AwaitedCall(RequestBegins).pc = "idle"
                                                   THEN "idle" ELSE "requesting",
                                            !.call = AwaitedCall(RequestBegins)]
                                   ELSE IF checks
                                   THEN [handler EXCEPT
                                            !.pc = IF AwaitedCall(CheckBegins).pc = "idle"
                                                   THEN "idle" ELSE "checking",
                                            !.call = AwaitedCall(CheckBegins)]
                                   ELSE [handler EXCEPT !.pc = "idle"]
                              ELSE IF handler.kind = "copy"
                              THEN IF actuallyGranted \/ (~requests /\ flag)
                                   THEN [handler EXCEPT !.pc = "timer"]
                                   ELSE IF requests
                                   THEN AfterCall(handler, RequestBegins,
                                                  "requesting", "timer")
                                   ELSE IdleHandler
                              ELSE IF actuallyGranted
                                   THEN [handler EXCEPT !.pc = "timer"]
                                   ELSE IdleHandler]]
           /\ lastCall' = HandlerStep("isPermissionActuallyGranted", h,
                                      handler.kind,
                                      outcome \in {"read", "NotAllowedError",
                                                   "otherError"},
                                      requests, <<>>)
    /\ UNCHANGED <<views, copies, permissionVars, returned, storeVars, syncStatus,
                   now, tasks, network, nextUuid>>

\* The probe a handler's PermissionManager call awaits answers, in the
\* manager: the record is stored; a request whose check was refused goes on
\* to its own probe; otherwise the call returns, and the handler that
\* awaits it resumes later.
HandlerProbeAnswers(h, outcome) ==
    /\ contentScript.handlers[h].call.pc = "probing"
    /\ LET handler == contentScript.handlers[h]
           r == ProbeAnswered(handler.call, outcome)
       IN  /\ permissionStatus' = r.permissionStatus
           /\ contentScript' =
                 [contentScript EXCEPT
                     !.handlers[h].call =
                         IF r.returned.fn = "none" THEN r.permissionCall
                         ELSE [pc |-> "returned", value |-> r.returned.value]]
           /\ lastCall' = HandlerStep("queryClipboardPermission", h,
                                      handler.kind,
                                      outcome \in {"read", "NotAllowedError",
                                                   "otherError"},
                                      FALSE, <<>>)
    /\ UNCHANGED <<views, copies, permissionCall, returned, storeVars, syncStatus,
                   now, tasks, network, nextUuid>>

\* The handler resumes with the value of the PermissionManager call it
\* awaited. initializePermission drops the value of its request (index.ts
\* 38) and assigns that of its check to the flag (43); the copy listener
\* assigns the value of its request and starts the timer if it is true
\* (73-82); in its timer it assigns the value of the check and reads the
\* clipboard if it is true (98-106).
PermissionCallReturns(h) ==
    /\ contentScript.handlers[h].call.pc = "returned"
    /\ LET handler == contentScript.handlers[h]
           value == handler.call.value
           assigns == ~(handler.kind = "load" /\ handler.pc = "requesting")
       IN  /\ contentScript' =
                 [hasClipboardPermission |->
                      IF assigns THEN value
                      ELSE contentScript.hasClipboardPermission,
                  handlers |->
                      [contentScript.handlers EXCEPT
                          ![h] =
                              IF handler.kind = "copy" /\ value
                              THEN [handler EXCEPT
                                       !.call = NoPermissionCall,
                                       !.pc = IF handler.pc = "requesting"
                                              THEN "timer" ELSE "reading"]
                              ELSE IdleHandler]]
           /\ lastCall' = HandlerStep("await", h, handler.kind, FALSE, FALSE,
                                      <<>>)
    /\ UNCHANGED <<views, copies, permissionVars, returned, storeVars, syncStatus,
                   now, tasks, network, nextUuid>>

\* The timer of a handler fires. The copy listener (88-106) returns if the
\* extension context is no longer valid; with the flag unset it assigns
\* the value of checkClipboardPermission and returns if it is false; then
\* it awaits the read of the clipboard. The paste listener (151-154) awaits
\* the read.
TimerFires(h, contextValid) ==
    /\ contentScript.handlers[h].pc = "timer"
    /\ LET handler == contentScript.handlers[h]
           flag == contentScript.hasClipboardPermission
           checks == handler.kind = "copy" /\ contextValid /\ ~flag
       IN  /\ contentScript' =
                 [hasClipboardPermission |->
                      IF checks THEN FlagAfterCall(flag, CheckBegins) ELSE flag,
                  handlers |->
                      [contentScript.handlers EXCEPT
                          ![h] =
                              IF handler.kind = "copy" /\ ~contextValid
                              THEN IdleHandler
                              ELSE IF checks
                              THEN AfterCall(handler, CheckBegins,
                                             "checking", "reading")
                              ELSE [handler EXCEPT !.pc = "reading"]]]
           /\ lastCall' = HandlerStep("setTimeout", h, handler.kind, FALSE,
                                      FALSE, <<>>)
    /\ UNCHANGED <<views, copies, permissionVars, returned, storeVars, syncStatus,
                   now, tasks, network, nextUuid>>

\* navigator.clipboard.readText answers the timer (106-125, 154-174): a
\* text that is not empty is sent as clipboard-copied or clipboard-pasted;
\* a refusal with NotAllowedError unsets the flag.
ReadAnswers(h, outcome) ==
    /\ contentScript.handlers[h].pc = "reading"
    /\ LET handler == contentScript.handlers[h]
       IN  /\ contentScript' =
                 [hasClipboardPermission |->
                      IF outcome = "NotAllowedError" THEN FALSE
                      ELSE contentScript.hasClipboardPermission,
                  handlers |-> [contentScript.handlers EXCEPT ![h] = IdleHandler]]
           /\ lastCall' =
                 HandlerStep("readText", h, handler.kind, TRUE, FALSE,
                             IF outcome = "text"
                             THEN <<[type |-> IF handler.kind = "copy"
                                              THEN "clipboard-copied"
                                              ELSE "clipboard-pasted",
                                     content |-> CopiedText]>>
                             ELSE <<>>)
    /\ UNCHANGED <<views, copies, permissionVars, returned, storeVars, syncStatus,
                   now, tasks, network, nextUuid>>

NextCopyEvent ==
    \/ \E h \in Handlers : CopyEvent(h)
    \/ \E h \in Handlers, contextValid \in BOOLEAN : PasteEvent(h, contextValid)
    \/ \E h \in Handlers, outcome \in ActualOutcomes :
          ActuallyGrantedAnswers(h, outcome)
    \/ \E h \in Handlers, outcome \in ProbeOutcomes :
          HandlerProbeAnswers(h, outcome)
    \/ \E h \in Handlers : PermissionCallReturns(h)
    \/ \E h \in Handlers, contextValid \in BOOLEAN : TimerFires(h, contextValid)
    \/ \E h \in Handlers, outcome \in ReadOutcomes : ReadAnswers(h, outcome)
    \/ DaysPass

\* The page is loaded on a first run, or on a record an earlier page left:
\* granted, or denied with the browser asked.
CopyEventRecords ==
    {DEFAULT_PERMISSION_STATUS, ProbedStatus(TRUE, FirstRun),
     ProbedStatus(FALSE, FirstRun)}

InitCopyEvent ==
    \E status \in CopyEventRecords : InitPermissionWith(status, FirstRun)

SpecCopyEvent == InitCopyEvent /\ [][NextCopyEvent]_vars

\* ------------------------------------------- a copy, up to the open views
\* A surface is opened: the component is set up and onMounted runs up to
\* its await (ClipboardHistory.vue 34-58). loadHistory assigns a copy of
\* the stored history to the ref, which triggers every watch, that of the
\* new component too; the component's history is a copy of what loadHistory
\* returned; get-clipboard-history is sent to the background.
Mount(c) ==
    /\ ~IsOpen(c)
    /\ clipboardHistory' = ensureValidHistory(clipboardHistory)
    /\ defaultHistory' = DefaultAfterCopy(defaultHistory)
    /\ views' = [Written(views) EXCEPT
                    ![c] = [OpenView(clipboardHistory') EXCEPT
                               !.pc = "asking", !.dirty = TRUE]]
    /\ lastCall' = Call("onMounted", 0, FALSE, TRUE, FALSE)
    /\ UNCHANGED <<contentScript, copies, permissionVars, returned, syncStatus,
                   now, tasks, network, nextUuid>>

\* What becomes of the get-clipboard-history a component sent: the
\* background answers with the stored history, or with an empty one
\* because its extension context is invalid, or the send rejects.
HistoryAnswers == {"history", "contextInvalid", "rejected"}

\* onMessage('get-clipboard-history') in the background (part_004 257-273):
\* the answer is a copy of the history stored when the request is handled.
GetClipboardHistory(c, outcome) ==
    /\ IsOpen(c)
    /\ views[c].pc = "asking"
    /\ views' = [views EXCEPT
          ![c].pc = "answered",
          ![c].answer =
              CASE outcome = "history" -> Some(ensureValidHistory(clipboardHistory))
                [] outcome = "contextInvalid" ->
                      Some([items |-> <<>>, maxItems |-> DEFAULT_MAX_ITEMS])
                [] OTHER -> Undefined]
    /\ lastCall' = Call("get-clipboard-history", 0, FALSE, outcome = "history",
                        FALSE)
    /\ UNCHANGED <<contentScript, copies, permissionVars, returned, storeVars,
                   syncStatus, now, tasks, network, nextUuid>>

\* onMounted after its await (ClipboardHistory.vue 59-79): the answer, if
\* there is one, becomes the component's history, whatever the history has
\* become since; then the runtime listener is registered.
OnMountedResumes(c) ==
    /\ IsOpen(c)
    /\ views[c].pc = "answered"
    /\ views' = [views EXCEPT
          ![c].pc = "listening",
          ![c].answer = Undefined,
          ![c].history = IF IsDefined(views[c].answer)
                         THEN Value(views[c].answer) ELSE @]
    /\ lastCall' = Call("onMounted", 0, FALSE, TRUE, FALSE)
    /\ UNCHANGED <<contentScript, copies, permissionVars, returned, storeVars,
                   syncStatus, now, tasks, network, nextUuid>>

\* The popup or the side panel is closed.
Unmount(c) ==
    /\ IsOpen(c)
    /\ views' = [views EXCEPT ![c] = ClosedView]
    /\ lastCall' = Other
    /\ UNCHANGED <<contentScript, copies, permissionVars, returned, storeVars,
                   syncStatus, now, tasks, network, nextUuid>>

\* The texts a clipboard-copied message is received with; the empty one
\* stands for a message without content.
CopiedContents == {"", "x", "y"}

\* A step of handler h of clipboard-copied, for the content it was called
\* with; valid says that the handler goes on.
CopyStep(name, h, content, valid) ==
    [name |-> name, task |-> h, echo |-> FALSE, valid |-> valid,
     fault |-> FALSE, content |-> content]

\* onMessage('clipboard-copied') up to its first await (part_004 176-198):
\* the handler returns if the extension context is invalid or the message
\* has no content; else it awaits browser.tabs.get for the tab of the
\* sender, which is a content script (index.ts 111, 239) and so has one.
OnClipboardCopied(h, content, contextValid) ==
    /\ copies[h].pc = "idle"
    /\ copies' = IF contextValid /\ content # ""
                 THEN [copies EXCEPT
                          ![h] = [pc |-> "tabsGet", content |-> content]]
                 ELSE copies
    /\ lastCall' = CopyStep("clipboard-copied", h, content,
                            contextValid /\ content # "")
    /\ UNCHANGED <<contentScript, views, permissionVars, returned, storeVars,
                   syncStatus, now, tasks, network, nextUuid>>

\* browser.tabs.get answers, or throws, which is caught (part_004 198-208):
\* the handler calls addToHistory, which stores the item at once, and
\* awaits the promise it returns.
TabsGetAnswers(h) ==
    /\ copies[h].pc = "tabsGet"
    /\ nextUuid < MaxUuids
    /\ nextUuid' = nextUuid + 1
    /\ clipboardHistory' =
          addToHistoryResult(clipboardHistory,
                             Item(Uuid(nextUuid + 1), copies[h].content))
    /\ defaultHistory' =
          DefaultAfterCopy(DefaultAfterWrite(defaultHistory, "assign",
                                              clipboardHistory'.items))
    /\ views' = Written(views)
    /\ copies' = [copies EXCEPT ![h].pc = "added"]
    /\ lastCall' = CopyStep("tabs.get", h, copies[h].content, TRUE)
    /\ UNCHANGED <<contentScript, permissionVars, returned, syncStatus, now,
                   tasks, network>>

\* The handler after its await of addToHistory (part_004 212-225): it reads
\* the history that is stored now and sends a copy of it as
\* clipboard-updated, and awaits the send. (The sends to the tabs that
\* follow reach content scripts only, which keep no view.)
CopySendsHistory(h) ==
    /\ copies[h].pc = "added"
    /\ copies' = [copies EXCEPT ![h].pc = "sending"]
    /\ network' = network \cup
          {UpdatedMessage(h, ensureValidHistory(clipboardHistory))}
    /\ views' = Dispatched(views,
                           UpdatedMessage(h, ensureValidHistory(clipboardHistory)))
    /\ lastCall' = CopyStep("sendMessage", h, copies[h].content, TRUE)
    /\ UNCHANGED <<contentScript, permissionVars, returned, storeVars,
                   syncStatus, now, tasks, nextUuid>>

\* The histories a copy is received on: up to MaxLen items, within a
\* persisted capacity.
InitCopy ==
    \E m \in PersistedMaxItems, q \in SeqsUpTo(HistoryItems, MaxLen) :
        /\ Len(q) <= m
        /\ InitWith([items |-> q, maxItems |-> m], {1},
                    InitialDefaults([items |-> q, maxItems |-> m]), {})

\* The surface a copy is followed to.
CopySurfaces == {"popup"}

\* What a clipboard-updated received over webext-bridge carries as its
\* history: nothing, or a history whose items are an array.
BridgedHistories ==
    {Undefined,
     Some([items |-> <<Item("b", "x")>>, maxItems |-> DEFAULT_MAX_ITEMS])}

\* The component's webext-bridge handler onMessage('clipboard-updated')
\* (ClipboardHistory.vue 96-107), registered when the component is set up:
\* a message whose history has an array of items replaces the component's
\* history, any other message is logged. The background of this build
\* sends clipboard-updated with browser.runtime.sendMessage only, so the
\* message is an input from outside.
OnClipboardUpdated(c, history) ==
    /\ IsOpen(c)
    /\ views' = IF IsDefined(history)
                THEN [views EXCEPT ![c].history = Value(history)]
                ELSE views
    /\ lastCall' = Call("onMessage", 0, FALSE, IsDefined(history), FALSE)
    /\ UNCHANGED <<contentScript, copies, permissionVars, returned, storeVars,
                   syncStatus, now, tasks, network, nextUuid>>

NextCopy ==
    \/ \E c \in CopySurfaces : Mount(c)
    \/ \E c \in CopySurfaces, outcome \in HistoryAnswers :
          GetClipboardHistory(c, outcome)
    \/ \E c \in CopySurfaces : OnMountedResumes(c)
    \/ \E c \in CopySurfaces : Unmount(c)
    \/ \E c \in CopySurfaces : WatchSees(c)
    \/ \E h \in CopyHandlers, content \in CopiedContents,
          contextValid \in BOOLEAN :
          OnClipboardCopied(h, content, contextValid)
    \/ \E h \in CopyHandlers : TabsGetAnswers(h)
    \/ \E h \in CopyHandlers : CopySendsHistory(h)
    \/ \E c \in CopySurfaces, m \in network : RuntimeListenerReceives(c, m)
    \/ \E m \in network : RuntimeSendSettles(m)
    \/ \E c \in CopySurfaces, history \in BridgedHistories :
          OnClipboardUpdated(c, history)

SpecCopy == InitCopy /\ [][NextCopy]_vars

\* ------------------------------------------- a clear made from a surface
\* handleClearHistory of the component of surface c, up to its await
\* (ClipboardHistory.vue 158-164): it returns if the extension context is
\* invalid, and else calls storage.clearHistory, which stores a copy of
\* DEFAULT_HISTORY. No message is sent and pendingOperations is left as it
\* is. The handler resumes before the component handles another click
\* (what it awaits is settled already). The last clear is kept for
\* reference: the surface, the history cleared and the passes that were in
\* progress.
HandleClearHistory(c, contextValid) ==
    /\ IsOpen(c)
    /\ ~views[c].resuming
    /\ lastCall' = Call("handleClearHistory", 0, FALSE, contextValid, FALSE)
    /\ IF contextValid
       THEN /\ clipboardHistory' = [items |-> defaultHistory.items,
                                    maxItems |-> DEFAULT_MAX_ITEMS]
            /\ defaultHistory' = [defaultHistory EXCEPT !.held = FALSE,
                                                        !.shared = TRUE]
            /\ views' = [Written(views) EXCEPT ![c].resuming = TRUE]
            /\ returned' = [fn |-> "handleClearHistory", surface |-> c,
                            before |-> clipboardHistory,
                            during |-> {t \in TaskIds :
                                           tasks[t].kind = "performSyncCheck"}]
       ELSE UNCHANGED <<storeVars, views, returned>>
    /\ UNCHANGED <<contentScript, copies, permissionVars, syncStatus, now, tasks,
                   network, nextUuid>>

\* handleRemoveFromHistory(id) of the component of surface c, up to its
\* await (ClipboardHistory.vue 143-149): storage.removeFromHistory stores
\* the history without the item.
HandleRemoveFromHistory(c, id, contextValid) ==
    /\ IsOpen(c)
    /\ ~views[c].resuming
    /\ lastCall' = Call("handleRemoveFromHistory", 0, FALSE, contextValid, FALSE)
    /\ IF contextValid
       THEN /\ clipboardHistory' =
                  [ensureValidHistory(clipboardHistory) EXCEPT
                      !.items = FilterOutId(clipboardHistory.items, id)]
            /\ defaultHistory' =
                  DefaultAfterCopy(DefaultAfterWrite(defaultHistory, "assign",
                                                      clipboardHistory'.items))
            /\ views' = [Written(views) EXCEPT ![c].resuming = TRUE]
       ELSE UNCHANGED <<storeVars, views>>
    /\ UNCHANGED <<contentScript, copies, permissionVars, returned, syncStatus,
                   now, tasks, network, nextUuid>>

\* handleClearHistory and handleRemoveFromHistory after their await
\* (ClipboardHistory.vue 151, 166): the component's history is a copy of
\* the history that is stored now.
ClickHandlerResumes(c) ==
    /\ IsOpen(c)
    /\ views[c].resuming
    /\ views' = [views EXCEPT ![c].history = clipboardHistory,
                              ![c].resuming = FALSE]
    /\ lastCall' = Call("history.value", 0, FALSE, TRUE, FALSE)
    /\ UNCHANGED <<contentScript, copies, permissionVars, returned, storeVars,
                   syncStatus, now, tasks, network, nextUuid>>

\* The item copied before the clear.
ClearedItem == Item("a", "x")

\* The popup and the side panel are open, on an empty history: that of a
\* first run, or one that was stored.
InitClear ==
    InitWith([items |-> <<>>, maxItems |-> DEFAULT_MAX_ITEMS], {1},
             InitialDefaults([items |-> <<>>, maxItems |-> DEFAULT_MAX_ITEMS]),
             {"popup", "sidepanel"})

\* Items are created before the first clear only: what a view shows after a
\* clear was copied before it.
NextClear ==
    \/ \E t \in TaskIds, source \in {"popup", "background"} :
          returned = NothingReturned /\ CreateItem(t, ClearedItem, source)
    \/ \E t \in TaskIds : QueryTabs(t)
    \/ \E m \in network : SurfaceReceives(m)
    \/ \E t \in TaskIds, fault \in BOOLEAN : Settle(t, fault)
    \/ \E t \in TaskIds : Complete(t)
    \/ \E t \in TaskIds : Retry(t)
    \/ \E c \in UiContexts : WatchSees(c)
    \/ \E c \in UiContexts, contextValid \in BOOLEAN :
          HandleClearHistory(c, contextValid)
    \/ \E c \in UiContexts, contextValid \in BOOLEAN :
          HandleRemoveFromHistory(c, ClearedItem.id, contextValid)
    \/ \E c \in UiContexts : ClickHandlerResumes(c)
    \/ \E t \in TaskIds : PerformSyncCheck(t)
    \/ \E t \in TaskIds : ProcessNext(t)
    \/ \E c \in UiContexts, m \in network : RuntimeListenerReceives(c, m)
    \/ \E m \in network : RuntimeSendSettles(m)
    \/ \E t \in TaskIds : StorageSyncNext(t)

SpecClear == InitClear /\ [][NextClear]_vars

\* -------------------------------------------- updates and the item named
\* The update operations a history is exercised with: data whose id is the
\* operation's itemId, and data whose id is another one. validateOperation
\* accepts both.
UpdateOperations ==
    {Operation("update", itemId, Some(i), 1, src) :
        itemId \in {"a", "b"}, i \in HistoryItems, src \in {"popup", "sidepanel"}}

NextUpdate ==
    \/ \E op \in UpdateOperations : OnSyncOperation(op)
    \/ \E op \in UpdateOperations : SurfaceApplies(op)

SpecUpdate == InitApply /\ [][NextUpdate]_vars

\* ------------------------------------------- the record under every call
\* What browser.permissions.contains answers to isPermissionGranted: that
\* the permission is held, that it is not, an error, or nothing because
\* browser.permissions does not exist.
ContainsOutcomes == {"contained", "notContained", "error", "noPermissionsApi"}

\* Mutant of ContainsStatus: the state found is written alone.
ContainsStatusStateOnly(status, state, time) ==
    [status EXCEPT !.clipboard = state]

\* The record isPermissionGranted writes: the one stored, with the state
\* found, hasRequested true and the time of the write.
ContainsStatus(status, state, time) ==
    [status EXCEPT !.clipboard = state, !.hasRequested = TRUE,
                   !.lastChecked = time]

\* PermissionManager.isPermissionGranted after its await of
\* permissions.contains: a stored state that differs from the answer is
\* overwritten; an error returns false; without the API the stored state
\* decides.
IsPermissionGranted(outcome) ==
    /\ LET stored ==
              CASE outcome = "contained" /\ permissionStatus.clipboard # "granted"
                      -> ContainsStatus(permissionStatus, "granted", now)
                [] outcome = "notContained" /\ permissionStatus.clipboard = "granted"
                      -> ContainsStatus(permissionStatus, "denied", now)
                [] OTHER -> permissionStatus
           value ==
              CASE outcome = "contained" -> TRUE
                [] outcome = "notContained" -> FALSE
                [] outcome = "error" -> FALSE
                [] OTHER -> permissionStatus.clipboard = "granted"
       IN  /\ permissionStatus' = stored
           /\ returned' = PermissionReturn("isPermissionGranted", value, 0,
                              permissionStatus, stored, now, now, FALSE)
    /\ lastCall' = [name |-> "isPermissionGranted", task |-> 0, echo |-> FALSE,
                    valid |-> TRUE, fault |-> FALSE, outcome |-> outcome]
    /\ UNCHANGED <<surfaceVars, permissionCall, storeVars, syncStatus,
                   now, tasks, network, nextUuid>>

NextPermissionRecord ==
    \/ NextPermission
    \/ \E outcome \in ContainsOutcomes : IsPermissionGranted(outcome)

SpecPermissionRecord == InitPermission /\ [][NextPermissionRecord]_vars

\* ------------------------------------------ a delete that meets a create
\* The operations that remove the item created: its delete, and a clear,
\* sent by a surface.
RemovingOperations ==
    {Operation("delete", ClearedItem.id, Undefined, 1, "sidepanel"),
     Operation("clear", "", Undefined, 1, "sidepanel")}

\* onMessage('sync-operation') in the background for an operation that
\* removes the item while the history holds it; the operation applied is
\* kept for reference, and it is the only one.
RemovalApplied(op) ==
    /\ returned = NothingReturned
    /\ HasId(clipboardHistory.items, ClearedItem.id)
    /\ LET r == handleIncomingOperation(clipboardHistory, syncStatus, op, now)
       IN  /\ clipboardHistory' = r.history
           /\ defaultHistory' =
                 DefaultAfterIncoming(defaultHistory, clipboardHistory, op)
           /\ syncStatus' = r.status
    /\ views' = ViewsAfterIncoming(views, clipboardHistory, op)
    /\ returned' = [fn |-> "handleIncomingOperation", operation |-> op]
    /\ lastCall' = Call("handleIncomingOperation", 0, op.source = "background",
                        validateOperation(op).valid, FALSE)
    /\ UNCHANGED <<contentScript, copies, permissionVars, now, tasks, network,
                   nextUuid>>

\* The item is created before it is removed, and not after.
NextResurrect ==
    \/ \E t \in TaskIds :
          returned = NothingReturned /\ CreateItem(t, ClearedItem, "popup")
    \/ \E t \in TaskIds : QueryTabs(t)
    \/ \E m \in network : SurfaceReceives(m)
    \/ \E m \in network : SendFails(m)
    \/ \E t \in TaskIds, fault \in BOOLEAN : Settle(t, fault)
    \/ \E t \in TaskIds : Complete(t)
    \/ \E t \in TaskIds : Retry(t)
    \/ ClearPendingOperations
    \/ \E op \in RemovingOperations : RemovalApplied(op)
    \/ \E t \in TaskIds : PerformSyncCheck(t)
    \/ \E t \in TaskIds : ProcessNext(t)
    \/ \E c \in UiContexts, m \in network : RuntimeListenerReceives(c, m)
    \/ \E m \in network : RuntimeSendSettles(m)
    \/ \E t \in TaskIds : StorageSyncNext(t)
    \/ \E c \in UiContexts : WatchSees(c)

SpecResurrect == Init /\ [][NextResurrect]_vars

\* -------------------------------------------- two calls that overlap
\* Two calls of the coordinator in progress at once, one from the popup and
\* one from the side panel: each suspends at its awaits and the other runs,
\* and so does the reconciliation pass.  The sends and the storage writes
\* succeed.  Both pages are open, or neither is.
OverlapSource(t) == <<"popup", "sidepanel">>[t]

InitOverlap ==
    \E open \in {{}, {"popup", "sidepanel"}} :
        InitWith([items |-> <<ClearedItem>>, maxItems |-> DEFAULT_MAX_ITEMS],
                 {1, 2}, {ModuleDefault(FALSE)}, open)

NextOverlap ==
    \/ \E t \in TaskIds : CreateItem(t, ClearedItem, OverlapSource(t))
    \/ \E t \in TaskIds : DeleteItem(t, ClearedItem.id, OverlapSource(t))
    \/ \E t \in TaskIds : ClearHistory(t, OverlapSource(t))
    \/ \E t \in TaskIds : QueryTabs(t)
    \/ \E m \in network : SurfaceReceives(m)
    \/ \E m \in network : SendFails(m)
    \/ \E t \in TaskIds : Settle(t, FALSE)
    \/ \E t \in TaskIds : Complete(t)
    \/ \E t \in TaskIds : PerformSyncCheck(t)
    \/ \E t \in TaskIds : ProcessNext(t)
    \/ \E c \in UiContexts, m \in network : RuntimeListenerReceives(c, m)
    \/ \E m \in network : RuntimeSendSettles(m)
    \/ \E t \in TaskIds : StorageSyncNext(t)
    \/ \E c \in UiContexts : WatchSees(c)

SpecOverlap == InitOverlap /\ [][NextOverlap]_vars

\* ------------------------------------ passes, calls and failures at once
\* The calls the passes are run with: a createItem that is well formed and
\* one that fails validation.
PassSubmissions == {ClearedItem, Item("a", "")}

\* The slots of the calls and the slots of the passes.
CallSlots == {1}
PassSlots == {2}

\* Calls and passes that overlap, with no surface open (every send rejects)
\* and storage writes that may fail.
InitPasses ==
    InitWith([items |-> <<>>, maxItems |-> DEFAULT_MAX_ITEMS],
             CallSlots \cup PassSlots, {ModuleDefault(FALSE)}, {})

NextPasses ==
    \/ \E t \in CallSlots, item \in PassSubmissions :
          CreateItem(t, item, "popup")
    \/ \E t \in TaskIds : QueryTabs(t)
    \/ \E m \in network : SendFails(m)
    \/ \E t \in TaskIds, fault \in BOOLEAN : Settle(t, fault)
    \/ \E t \in CallSlots : Complete(t)
    \/ \E t \in TaskIds : Retry(t)
    \/ \E t \in PassSlots : PerformSyncCheck(t)
    \/ \E t \in PassSlots : ProcessNext(t)
    \/ \E m \in network : RuntimeSendSettles(m)
    \/ \E t \in PassSlots : StorageSyncNext(t)

SpecPasses == InitPasses /\ [][NextPasses]_vars

\* Two calls of clearHistory that overlap, one from the popup and one from
\* the side panel, with storage writes that may fail and no pass.
NextCalls ==
    \/ \E t \in TaskIds : ClearHistory(t, OverlapSource(t))
    \/ \E t \in TaskIds : QueryTabs(t)
    \/ \E m \in network : SendFails(m)
    \/ \E t \in TaskIds, fault \in BOOLEAN : Settle(t, fault)
    \/ \E t \in TaskIds : Complete(t)
    \/ \E t \in TaskIds : Retry(t)

SpecCalls == InitPasses /\ [][NextCalls]_vars

\* The overlapping calls under the scheduling of the event loop: a
\* continuation that is ready runs, and every send settles.
OverlapSlots == {1, 2}

OverlapFairness ==
    \A t \in OverlapSlots :
        /\ WF_vars(QueryTabs(t))
        /\ WF_vars(\E m \in network :
                      m.task = t /\ (SurfaceReceives(m) \/ SendFails(m)))
        /\ WF_vars(Settle(t, FALSE))
        /\ WF_vars(Complete(t))

SpecOverlapFair == SpecOverlap /\ OverlapFairness

\* ================================================================ claims
Items == clipboardHistory.items

\* Whether the history shows the operation's effect: a created item is
\* present, a deleted one absent, a clear left nothing.
Applied(op, history) ==
    CASE op.type = "create" -> HasId(history.items, Value(op.data).id)
      [] op.type = "delete" -> ~HasId(history.items, op.itemId)
      [] op.type = "clear" -> history.items = <<>>
      [] OTHER -> TRUE

\* C1: in every reachable state the history holds at most maxItems items.
\* (Stated as claimed; the coordinator's create does not truncate.)
C1_CapacityInvariant == Len(Items) <= clipboardHistory.maxItems

\* C2: in every state reachable from the empty history, no two items of the
\* history share an id.
C2_UniqueIds ==
    \A i, j \in 1..Len(Items) : i # j => Items[i].id # Items[j].id

\* A create or delete was applied and the history holds several items.
C2_Witness ==
    /\ lastCall.name \in {"handleIncomingOperation", "handleSyncOperation"}
    /\ Len(Items) >= 3

\* C3: applying a create or a delete a second time, right after applying
\* it, changes nothing: for each of the two appliers, whenever a step
\* applied an operation, applying the same operation to the result gives
\* the result.
C3_Idempotence ==
    [][/\ lastCall'.name = "handleIncomingOperation" =>
            \A op \in HistoryOperations :
                (/\ op.type \in {"create", "delete"}
                 /\ clipboardHistory' =
                       handleIncomingOperation(clipboardHistory, syncStatus, op, now).history)
                => handleIncomingOperation(clipboardHistory', syncStatus', op, now).history
                      = clipboardHistory'
       /\ lastCall'.name = "handleSyncOperation" =>
            \A op \in BroadcastOperations :
                (/\ op.type \in {"create", "delete"}
                 /\ clipboardHistory' = handleSyncOperation(clipboardHistory, op))
                => handleSyncOperation(clipboardHistory', op) = clipboardHistory'
      ]_vars

\* A create was applied by the coordinator to a history that was full length.
C3_Witness ==
    /\ lastCall.name = "handleIncomingOperation"
    /\ lastCall.valid /\ ~lastCall.echo
    /\ Len(Items) = MaxLen + 1

\* C4: a call of createItem, deleteItem, clearHistory or broadcastOperation
\* with an operation that fails validation leaves the history and the sync
\* status as they were. (Stated as claimed; the three submitting calls push
\* the operation onto pendingOperations before it is validated.)
C4_InvalidCallChangesNothing ==
    [][(/\ lastCall'.name \in SubmitKinds \cup {"processPendingOperation"}
        /\ ~lastCall'.valid)
       => UNCHANGED <<clipboardHistory, syncStatus>>]_vars

\* C5: no reconciliation pass calls broadcastOperation for an operation
\* that failed validation. (Stated as claimed.)
C5_InvalidNeverAttemptedAgain ==
    ~(lastCall.name = "processPendingOperation" /\ ~lastCall.valid)

\* C6: while the first attempt of a submitted operation has messages sent,
\* the operation is in pendingOperations and applied to the local history.
\* (Stated as claimed; the code applies it after the sends have settled.)
C6_AppliedBeforeFirstSend ==
    \A t \in TaskIds :
        (/\ tasks[t].kind \in SubmitKinds
         /\ tasks[t].pc \in {"queryTabs", "awaitSettled"}
         /\ tasks[t].attempt = 0)
        => /\ \E i \in 1..Len(syncStatus.pendingOperations) :
                 syncStatus.pendingOperations[i] = Value(tasks[t].op)
           /\ Applied(Value(tasks[t].op), clipboardHistory)

\* C7: when a broadcast completes, its operation is applied to the local
\* history and lastSyncTime is the completion time. (Stated as claimed; an
\* operation whose origin is the background is dropped by the echo guard.)
C7_CompletedMeansApplied ==
    [][(lastCall'.name = "settle" /\ syncStatus'.error = Undefined)
       => /\ Applied(Value(tasks[lastCall'.task].op), clipboardHistory')
          /\ syncStatus'.lastSyncTime = now']_vars

\* C8: an attempt whose write to storage does not fail completes, whatever
\* became of its sends - also when none of them was received: no error is
\* set, isSyncing is false, and no retry is scheduled.
C8_FailedSendsSwallowed ==
    [][(lastCall'.name = "settle" /\ ~lastCall'.fault)
       => /\ syncStatus'.isSyncing = FALSE
          /\ syncStatus'.error = Undefined
          /\ tasks'[lastCall'.task].pc \in {"resolved", "reconcile"}
          /\ tasks'[lastCall'.task].attempt <= tasks[lastCall'.task].attempt]_vars

\* A first attempt completed although none of its sends was received.
C8_Witness ==
    /\ lastCall.name = "settle" /\ ~lastCall.fault
    /\ tasks[lastCall.task].pc = "resolved"
    /\ ~tasks[lastCall.task].acked
    /\ tasks[lastCall.task].attempt = 0

\* C9: handleIncomingOperation with an operation whose origin is the
\* background leaves the history and the whole sync status unchanged.
C9_EchoGuard ==
    [][(lastCall'.name = "handleIncomingOperation" /\ lastCall'.echo)
       => UNCHANGED <<clipboardHistory, syncStatus>>]_vars

\* An echo was handled while the history held an item and time had passed
\* since the last sync.
C9_Witness ==
    /\ lastCall.name = "handleIncomingOperation" /\ lastCall.echo
    /\ Len(Items) > 0
    /\ syncStatus.lastSyncTime < now

\* C10: handling an incoming operation, in the coordinator or in a surface,
\* sends no message.
C10_NoRebroadcast ==
    [][lastCall'.name \in {"handleIncomingOperation", "handleSyncOperation"}
       => network' \subseteq network]_vars

\* A surface's operation was applied by the coordinator while a broadcast
\* was in flight.
C10_Witness ==
    /\ lastCall.name = "handleIncomingOperation"
    /\ lastCall.valid /\ ~lastCall.echo
    /\ Len(Items) > 0
    /\ \E t \in TaskIds : tasks[t].pc = "awaitSettled"

\* C11: a failed attempt is retried at most 3 times, after waiting 1000,
\* then 2000, then 4000 ms; a retry is scheduled exactly when an attempt
\* failed and fewer than 3 retries were made, so never after the third
\* retry failed and never after an attempt succeeded.
C11_RetryPolicy ==
    [][\A t \in TaskIds :
        /\ (lastCall'.name = "retry" /\ lastCall'.task = t)
           => /\ tasks[t].pc = "backoff"
              /\ tasks'[t].attempt = tasks[t].attempt + 1
              /\ tasks'[t].attempt <= 3
              /\ tasks[t].delay = <<1000, 2000, 4000>>[tasks'[t].attempt]
        /\ (lastCall'.name = "settle" /\ lastCall'.task = t)
           => (tasks'[t].pc = "backoff"
                 <=> (lastCall'.fault /\ tasks[t].attempt < 3))
      ]_vars

\* The third retry was started, after the third wait.
C11_Witness ==
    /\ lastCall.name = "retry"
    /\ tasks[lastCall.task].attempt = 3
    /\ tasks[lastCall.task].pc = "queryTabs"

\* C12: when the last attempt of an operation submitted through createItem,
\* deleteItem or clearHistory has failed, the status has a non-empty error,
\* isSyncing is false and the operation is still in pendingOperations.
\* (Stated as claimed; a call of the same type that completed in the
\* meantime has filtered the operation out.)
C12_ExhaustedStaysPending ==
    [][\A t \in TaskIds :
        (/\ lastCall'.name = "settle" /\ lastCall'.task = t /\ lastCall'.fault
         /\ tasks[t].attempt = MaxRetries
         /\ tasks[t].kind \in SubmitKinds)
        => /\ IsDefined(syncStatus'.error)
           /\ Value(syncStatus'.error) # ""
           /\ syncStatus'.isSyncing = FALSE
           /\ \E i \in 1..Len(syncStatus'.pendingOperations) :
                 syncStatus'.pendingOperations[i] = Value(tasks[t].op)
      ]_vars

\* The pendingOperations the pass of slot t began with.
PassStartOf(t) ==
    IF tasks[t].pc = "idle" THEN syncStatus.pendingOperations
    ELSE tasks[t].passStart

\* C13: a reconciliation pass hands every operation that was pending when
\* it began to broadcastOperation (whose attempt sends it to the contexts),
\* goes on after a re-broadcast that failed, sends the current history as
\* clipboard-updated once all of them are done, and ends only after that.
C13_PassRebroadcastsThenSendsHistory ==
    [][\A t \in TaskIds :
        /\ (lastCall'.name = "processPendingOperation" /\ lastCall'.task = t)
           => /\ tasks'[t].kind = "performSyncCheck"
              /\ tasks'[t].pc \in {"queryTabs", "reconcile"}
              /\ lastCall'.valid
                 => LET done == tasks'[t].passDone
                    IN  /\ tasks'[t].op = Some(done[Len(done)])
                        /\ ContextSends(t, done[Len(done)]) \subseteq network'
        /\ (/\ lastCall'.name = "ensureStorageSync" /\ lastCall'.task = t
            /\ tasks[t].pc # "storageSync")
           => /\ \A i \in 1..Len(PassStartOf(t)) :
                    \E j \in 1..Len(tasks[t].passDone) :
                        tasks[t].passDone[j] = PassStartOf(t)[i]
              /\ UpdatedMessage(t, clipboardHistory') \in network'
        /\ (tasks[t].kind = "performSyncCheck" /\ tasks'[t].kind # "performSyncCheck")
           => /\ tasks[t].pc = "storageSync"
              /\ tasks[t].sends = Cardinality(Contexts)
      ]_vars

\* A pass that began with two operations pending, of which
\* broadcastOperation rejected one before it was handed a well-formed one,
\* has handed both to it and has sent the history, an attempt having
\* failed.
C13_Witness ==
    /\ lastCall.name = "ensureStorageSync"
    /\ LET pass == tasks[lastCall.task]
       IN  /\ pass.pc = "storageSync"
           /\ pass.sends = 1
           /\ Len(pass.passStart) >= 2
           /\ \E i, j \in 1..Len(pass.passStart) :
                 /\ i < j
                 /\ ~validateOperation(pass.passStart[i]).valid
                 /\ validateOperation(pass.passStart[j]).valid
           /\ \A i \in 1..Len(pass.passStart) :
                 \E j \in 1..Len(pass.passDone) :
                     pass.passDone[j] = pass.passStart[i]
    /\ IsDefined(syncStatus.error)
    /\ UpdatedMessage(lastCall.task, clipboardHistory) \in network

\* C14: validateOperation rejects every create or update whose data lacks
\* a non-empty id or content, and every delete without itemId. (Stated as
\* claimed; an update is only asked to have some data and an itemId.)
C14_ValidationComplete ==
    returned.fn = "validateOperation"
    => LET op == returned.operation
           incomplete == \/ ~IsDefined(op.data)
                         \/ Value(op.data).id = ""
                         \/ Value(op.data).content = ""
       IN  (\/ op.type \in {"create", "update"} /\ incomplete
            \/ op.type = "delete" /\ op.itemId = "")
           => ~returned.value.valid

\* C15: validateOperation rejects every operation whose timestamp is zero,
\* negative or missing. (Stated as claimed; a negative timestamp passes.)
C15_TimestampPositive ==
    (returned.fn = "validateOperation" /\ returned.operation.timestamp <= 0)
    => ~returned.value.valid

\* C16: the result of resolveConflicts has one entry per operation of the
\* batch, in the order of the batch sorted by timestamp with ties in input
\* order; an entry is resolved, and carries its operation, exactly when the
\* operation has no itemId or is the first of the sorted order on its
\* itemId; so for each itemId exactly one operation is resolved.
C16_ConflictClassification ==
    returned.fn = "resolveConflicts"
    => LET ops == returned.operations
           res == returned.value
           n == Len(ops)
       IN  /\ Len(res) = n
           /\ \E p \in Permutations(1..n) :
                 /\ \A i, j \in 1..n :
                       i < j => \/ ops[p[i]].timestamp < ops[p[j]].timestamp
                                \/ /\ ops[p[i]].timestamp = ops[p[j]].timestamp
                                   /\ p[i] < p[j]
                 /\ \A i \in 1..n :
                       /\ res[i].resolved
                          <=> \/ ops[p[i]].itemId = ""
                              \/ \A j \in 1..(i - 1) :
                                    ops[p[j]].itemId # ops[p[i]].itemId
                       /\ res[i].resolved => res[i].operation = Some(ops[p[i]])
           /\ \A id \in {ops[i].itemId : i \in 1..n} \ {""} :
                 Cardinality({i \in 1..n :
                                 /\ res[i].resolved
                                 /\ Value(res[i].operation).itemId = id}) = 1

\* The batch [a at 2, a at 1, b at 1]: the a at 1 and the b are resolved,
\* the a at 2 comes last and is not.
C16_Witness ==
    /\ returned.fn = "resolveConflicts"
    /\ Len(returned.operations) = 3
    /\ returned.operations[1].itemId = "a" /\ returned.operations[1].timestamp = 2
    /\ returned.operations[2].itemId = "a" /\ returned.operations[2].timestamp = 1
    /\ returned.operations[3].itemId = "b" /\ returned.operations[3].timestamp = 1
    /\ returned.value[1].resolved /\ returned.value[1].operation = Some(returned.operations[2])
    /\ returned.value[2].resolved /\ returned.value[2].operation = Some(returned.operations[3])
    /\ ~returned.value[3].resolved

\* C17: after any sequence of creates through addToHistory, starting from
\* the empty history with capacity maxItems = N, the history is the N most
\* recently created items, newest first.
C17_EvictionOrder ==
    returned.fn = "addToHistory"
    => LET n == clipboardHistory.maxItems
           k == IF Len(Created) < n THEN Len(Created) ELSE n
       IN  /\ Len(Items) = k
           /\ \A i \in 1..k : Items[i] = Created[Len(Created) + 1 - i]

\* maxItems = 2 and creates a, b, c: the history is [c, b].
C17_Witness ==
    /\ clipboardHistory.maxItems = 2
    /\ Len(Created) = 3
    /\ Created[1].content = "a" /\ Created[2].content = "b" /\ Created[3].content = "c"
    /\ Len(Items) = 2
    /\ Items[1].content = "c" /\ Items[2].content = "b"

\* C18: checkClipboardPermission called on a granted record returns true,
\* and called on a record denied with hasRequested less than 7 days after
\* lastChecked returns false; both without a probe and without a change of
\* the stored record.
C18_TrustsTheCache ==
    (/\ returned.fn = "checkClipboardPermission"
     /\ \/ returned.before.clipboard = "granted"
        \/ /\ returned.before.clipboard = "denied"
           /\ returned.before.hasRequested
           /\ returned.called - returned.before.lastChecked < 7)
    => /\ returned.value = (returned.before.clipboard = "granted")
       /\ returned.probes = 0
       /\ returned.after = returned.before
       /\ permissionStatus = returned.before

\* A check on a record denied a day earlier returned false.
C18_Witness ==
    /\ returned.fn = "checkClipboardPermission"
    /\ returned.before.clipboard = "denied" /\ returned.before.hasRequested
    /\ returned.called - returned.before.lastChecked = 1
    /\ returned.value = FALSE

\* C19: checkClipboardPermission called on a record denied with
\* hasRequested more than 7 days after lastChecked makes exactly one probe,
\* stores its outcome with the time of the call and returns it; called 7
\* days or less after, it returns false without a probe. (Stated as
\* claimed; a denied record is answered from the cache whatever its age.)
C19_TimeGatedReprobe ==
    (/\ returned.fn = "checkClipboardPermission"
     /\ returned.before.clipboard = "denied"
     /\ returned.before.hasRequested)
    => IF returned.called - returned.before.lastChecked > 7
       THEN /\ returned.probes = 1
            /\ returned.after.clipboard =
                  (IF returned.value THEN "granted" ELSE "denied")
            /\ returned.after.lastChecked = returned.called
       ELSE returned.value = FALSE /\ returned.probes = 0

\* C20: checkClipboardPermission called on the default record makes a
\* probe and leaves the record granted or denied with hasRequested true and
\* lastChecked the time of the answer, returning true exactly when it is
\* granted; the shouldShowPermissionRequest that follows returns false when
\* the record is granted, and when it is denied and less than 30 days have
\* passed.
C20_PermissionGating ==
    /\ (/\ returned.fn = "checkClipboardPermission"
        /\ returned.before = DEFAULT_PERMISSION_STATUS)
       => /\ returned.probes = 1
          /\ returned.after.clipboard \in {"granted", "denied"}
          /\ returned.after.hasRequested
          /\ returned.after.lastChecked = returned.at
          /\ returned.value = (returned.after.clipboard = "granted")
          /\ permissionStatus = returned.after
    /\ (/\ returned.fn = "shouldShowPermissionRequest"
        /\ returned.afterFirstCheck
        /\ \/ returned.before.clipboard = "granted"
           \/ /\ returned.before.clipboard = "denied"
              /\ returned.called - returned.before.lastChecked < 30)
       => returned.value = FALSE

\* The first check was denied, and 8 days later no request is to be shown.
C20_Witness ==
    /\ returned.fn = "shouldShowPermissionRequest"
    /\ returned.afterFirstCheck
    /\ returned.before.clipboard = "denied"
    /\ returned.called - returned.before.lastChecked = 8
    /\ returned.value = FALSE

\* C21: shouldShowPermissionRequest, on every stored record at every
\* instant, returns false when the state is granted; otherwise true when
\* hasRequested is false; otherwise, on a denied record, true exactly when
\* more than 30 days have passed since lastChecked.
C21_ShouldShowPermissionRequest ==
    returned.fn = "shouldShowPermissionRequest"
    => IF returned.before.clipboard = "granted" THEN returned.value = FALSE
       ELSE IF ~returned.before.hasRequested THEN returned.value = TRUE
       ELSE returned.before.clipboard = "denied"
            => returned.value =
                  (returned.called - returned.before.lastChecked > 30)

\* On a record denied exactly 30 days earlier no request is to be shown.
C21_Witness ==
    /\ returned.fn = "shouldShowPermissionRequest"
    /\ returned.before.clipboard = "denied" /\ returned.before.hasRequested
    /\ returned.called - returned.before.lastChecked = 30
    /\ returned.value = FALSE

\* C22: requestClipboardPermission called on a granted record returns true
\* without a probe and without a change of the record; called on any other
\* record, when it returns, the stored record holds the outcome (granted
\* when it returned true, denied when false) with hasRequested true and
\* lastChecked within the time of the request, from its call to its return.
C22_RequestStoresTheOutcome ==
    returned.fn = "requestClipboardPermission"
    => IF returned.before.clipboard = "granted"
       THEN /\ returned.value = TRUE
            /\ returned.probes = 0
            /\ returned.after = returned.before
            /\ permissionStatus = returned.before
       ELSE /\ returned.probes >= 1
            /\ permissionStatus = returned.after
            /\ returned.after.clipboard =
                  (IF returned.value THEN "granted" ELSE "denied")
            /\ returned.after.hasRequested
            /\ returned.called <= returned.after.lastChecked
            /\ returned.after.lastChecked <= returned.at

\* A request made on a record denied before was refused again and stored.
C22_Witness ==
    /\ returned.fn = "requestClipboardPermission"
    /\ returned.before.clipboard = "denied" /\ returned.before.hasRequested
    /\ returned.value = FALSE
    /\ permissionStatus.clipboard = "denied"
    /\ permissionStatus.lastChecked > returned.before.lastChecked

\* C24: resetPermissionStatus makes the record {prompt, lastChecked 0,
\* hasRequested false} whatever it was; the shouldShowPermissionRequest that
\* follows returns true and the checkClipboardPermission that follows awaits
\* a probe.
C24_ResetPermissionStatus ==
    [][/\ lastCall'.name = "resetPermissionStatus"
          => /\ permissionStatus' = DEFAULT_PERMISSION_STATUS
             /\ permissionStatus'.clipboard = "prompt"
             /\ permissionStatus'.lastChecked = 0
             /\ ~permissionStatus'.hasRequested
       /\ (/\ returned.fn = "resetPermissionStatus"
           /\ lastCall'.name = "shouldShowPermissionRequest")
          => returned'.value = TRUE
       /\ (/\ returned.fn = "resetPermissionStatus"
           /\ lastCall'.name = "checkClipboardPermission")
          => /\ permissionCall'.pc = "probing"
             /\ permissionCall'.fn = "checkClipboardPermission"]_vars

\* A granted record, which a check would have answered from, was reset.
C24_Witness ==
    /\ returned.fn = "resetPermissionStatus"
    /\ returned.before.clipboard = "granted" /\ returned.before.hasRequested
    /\ returned.before.lastChecked > 0
    /\ permissionStatus = DEFAULT_PERMISSION_STATUS

\* C25: a probe that fails with NotAllowedError stores denied, and the call
\* it ends returns false; a probe that fails with another error, of the
\* read or of browser.permissions itself, stores granted and the call
\* returns true. The call returns a value in both cases, it raises nothing.
C25_ProbeFailures ==
    lastCall.name = "queryClipboardPermission"
    => /\ lastCall.outcome = "NotAllowedError"
          => /\ permissionStatus.clipboard = "denied"
             /\ returned # NothingReturned
                => /\ returned.fn \in {"checkClipboardPermission",
                                       "requestClipboardPermission"}
                   /\ returned.value = FALSE
       /\ lastCall.outcome \in {"otherError", "permissionsError"}
          => /\ permissionStatus.clipboard = "granted"
             /\ returned.fn \in {"checkClipboardPermission",
                                 "requestClipboardPermission"}
             /\ returned.value = TRUE

\* A request's probe failed with an error other than NotAllowedError, and
\* the request returned true.
C25_Witness ==
    /\ lastCall.name = "queryClipboardPermission"
    /\ lastCall.outcome = "otherError"
    /\ returned.fn = "requestClipboardPermission"
    /\ returned.value = TRUE
    /\ permissionStatus.clipboard = "granted"

\* C28: loadHistory, on every stored value, returns (and stores) a history
\* whose items is an array and whose maxItems is a positive integer; a
\* well-formed field is kept, a malformed one (items not an array; maxItems
\* missing, zero, negative or not an integer) replaced by its default, []
\* or 50. (Stated as claimed; maxItems is only tested for its type.)
C28_DefensiveLoad ==
    returned.fn = "loadHistory"
    => /\ clipboardHistory = returned.value
       /\ IsArray(returned.value.items)
       /\ returned.value.items =
             (IF IsArray(returned.stored.items) THEN returned.stored.items
              ELSE JsArray(<<>>))
       /\ returned.value.maxItems.kind = "integer"
       /\ returned.value.maxItems.value > 0
       /\ returned.value.maxItems =
             (IF /\ returned.stored.maxItems.kind = "integer"
                 /\ returned.stored.maxItems.value > 0
              THEN returned.stored.maxItems
              ELSE JsInteger(50))

\* C29: isHealthy is true exactly when the status is not syncing, has no
\* error (none, or an empty message), has no pending operation, and less
\* than 60 seconds have passed since lastSyncTime.
C29_IsHealthy ==
    returned.fn = "isHealthy"
    => returned.value =
          (/\ returned.status.isSyncing = FALSE
           /\ \/ returned.status.error = Undefined
              \/ returned.status.error = Some("")
           /\ returned.status.pendingOperations = <<>>
           /\ returned.at - returned.status.lastSyncTime < 60000)

\* A status with nothing wrong but a pending operation is not healthy, and
\* one with nothing wrong is healthy until a minute has passed.
C29_Witness ==
    /\ returned.fn = "isHealthy"
    /\ ~returned.status.isSyncing
    /\ returned.status.error = Undefined
    /\ \/ /\ returned.status.pendingOperations # <<>>
          /\ returned.at - returned.status.lastSyncTime = 59999
          /\ returned.value = FALSE
       \/ /\ returned.status.pendingOperations = <<>>
          /\ returned.at - returned.status.lastSyncTime = 60000
          /\ returned.value = FALSE

\* Whether after is before with the first item of data's id, if there is
\* one, replaced by data where it stood, and nothing else changed.
UpdatedInPlace(before, after, data) ==
    LET matching == {k \in 1..Len(before.items) : before.items[k].id = data.id}
    IN  /\ after.maxItems = before.maxItems
        /\ Len(after.items) = Len(before.items)
        /\ \A k \in 1..Len(before.items) :
              after.items[k] =
                 (IF k \in matching /\ \A j \in matching : k <= j
                  THEN data
                  ELSE before.items[k])

\* C30: an update applied by either applier replaces the item of data.id
\* where it stands and leaves the length of the history, and every other
\* item in its place, as they were; an update whose data.id matches no item
\* leaves the history unchanged.
C30_UpdateInPlace ==
    [][/\ lastCall'.name = "handleIncomingOperation" =>
            \A op \in HistoryOperations :
                (/\ op.type = "update"
                 /\ op.source # "background"
                 /\ validateOperation(op).valid
                 /\ clipboardHistory' =
                       handleIncomingOperation(clipboardHistory, syncStatus, op, now).history)
                => UpdatedInPlace(clipboardHistory, clipboardHistory', Value(op.data))
       /\ (/\ lastCall'.name = "handleSyncOperation"
           /\ lastCall'.operation.type = "update")
          => /\ UpdatedInPlace(clipboardHistory, clipboardHistory',
                               Value(lastCall'.operation.data))
             /\ ~HasId(clipboardHistory.items, Value(lastCall'.operation.data).id)
                => clipboardHistory' = clipboardHistory
      ]_vars

\* An update was applied to a history of two items and its data stands at
\* the second place, after an item of another id.
C30_Witness ==
    /\ lastCall.name = "handleSyncOperation"
    /\ lastCall.operation.type = "update"
    /\ Len(Items) = 2
    /\ Items[2] = Value(lastCall.operation.data)
    /\ Items[1].id # Items[2].id

\* C23: while the stored record is denied with hasRequested true and 30
\* days or less have passed since lastChecked, no step of the handler of a
\* copy event reads the clipboard, makes a permission request or sends a
\* clipboard-copied message. (Stated as claimed; the handler begins with
\* isPermissionActuallyGranted, which reads the clipboard whatever is
\* stored, unless browser.permissions.contains says no or rejects.)
C23_NoReadWithinCooldown ==
    [][(/\ lastCall'.name \in HandlerSteps
        /\ lastCall'.kind = "copy"
        /\ permissionStatus.clipboard = "denied"
        /\ permissionStatus.hasRequested
        /\ now - permissionStatus.lastChecked <= THIRTY_DAYS)
       => /\ ~lastCall'.read
          /\ ~lastCall'.request
          /\ lastCall'.sent = <<>>]_vars

\* C26, as claimed: a handler of clipboard-copied whose content c is not
\* empty first stores a new item of content c at the head of the history,
\* having sent nothing yet; the clipboard-updated it sends afterwards
\* carries a history whose first item has content c; and a popup that
\* listens and receives that message then shows the history it carries,
\* with c first. (Stated as claimed; a copy stored between the handler's
\* addToHistory and its read of the history is the first item it sends.)
C26_CopyReachesThePopup ==
    [][\A h \in CopyHandlers :
        /\ (copies[h].pc # "added" /\ copies'[h].pc = "added")
           => /\ Len(clipboardHistory'.items) >= 1
              /\ clipboardHistory'.items[1].content = copies'[h].content
              /\ ~HasId(clipboardHistory.items, clipboardHistory'.items[1].id)
              /\ InFlight(h, "clipboard-updated") = {}
        /\ (copies[h].pc = "added" /\ copies'[h].pc = "sending")
           => \A m \in network' \ network :
                 /\ m.task = h
                 /\ m.type = "clipboard-updated"
                 /\ Len(Value(m.history).items) >= 1
                 /\ Value(m.history).items[1].content = copies[h].content
        /\ (/\ copies[h].pc = "sending"
            /\ views.popup.pc = "listening"
            /\ views'.popup.pc = "listening")
           => \A m \in views.popup.inbox \ views'.popup.inbox :
                 m.task = h
                 => /\ views'.popup.history = Value(m.history)
                    /\ Len(views'.popup.history.items) >= 1
                    /\ views'.popup.history.items[1].content = copies[h].content
      ]_vars

\* C27: once the popup has cleared the history, every open surface shows an
\* empty list when a reconciliation pass ends that began after the clear,
\* the first such pass and every later one, no item having been copied
\* since. (Stated as claimed; an operation that is pending or in progress
\* at the clear puts its item back.)
C27_ClearPropagates ==
    [][\A t \in TaskIds :
        (/\ returned.fn = "handleClearHistory"
         /\ returned.surface = "popup"
         /\ t \notin returned.during
         /\ tasks[t].kind = "performSyncCheck"
         /\ tasks'[t].kind # "performSyncCheck")
        => \A c \in UiContexts :
              IsOpen(c) => views'[c].history.items = <<>>
      ]_vars

\* C35: one call of requestClipboardPermission makes at most one probe of
\* the browser, whatever the stored record and whatever the probes answer.
\* (Stated as claimed; a request whose own check has probed and was refused
\* probes again.)
C35_RequestProbesOnce ==
    returned.fn = "requestClipboardPermission" => returned.probes <= 1

\* C39: every clear leaves maxItems as it was: storage clearHistory, and a
\* clear operation applied by handleIncomingOperation or by
\* handleSyncOperation, on every history, also one whose maxItems is not
\* 50. (Stated as claimed; storage clearHistory stores DEFAULT_HISTORY.)
C39_ClearKeepsMaxItems ==
    [][/\ lastCall'.name = "clearHistory"
          => /\ clipboardHistory'.items = <<>>
             /\ clipboardHistory'.maxItems = clipboardHistory.maxItems
       /\ lastCall'.name = "handleIncomingOperation"
          => \A op \in HistoryOperations :
                (/\ op.type = "clear"
                 /\ clipboardHistory' =
                       handleIncomingOperation(clipboardHistory, syncStatus, op, now).history)
                => clipboardHistory'.maxItems = clipboardHistory.maxItems
       /\ (/\ lastCall'.name = "handleSyncOperation"
           /\ lastCall'.operation.type = "clear")
          => /\ clipboardHistory'.items = <<>>
             /\ clipboardHistory'.maxItems = clipboardHistory.maxItems
      ]_vars

\* C38: getHealthStatus(status).healthy is isHealthy(status), for every
\* status at every clock; a last sync more than 60 seconds old is not
\* reported healthy. (Stated as claimed; getHealthStatus finds the last
\* sync too old only after 5 minutes.)
C38_HealthChecksAgree ==
    returned.fn = "getHealthStatus"
    => /\ returned.value.healthy = isHealthy(returned.status, returned.at)
       /\ returned.at - returned.status.lastSyncTime > 60000
          => ~returned.value.healthy

\* C37: the two appliers agree: a valid operation that does not come from
\* the background, applied to a history by handleSyncOperation, gives the
\* items and the maxItems that handleIncomingOperation gives on the same
\* history, and the other way round. (Stated as claimed; only
\* handleSyncOperation truncates to maxItems after a create.)
C37_AppliersAgree ==
    [][/\ (/\ lastCall'.name = "handleSyncOperation"
           /\ lastCall'.operation.source # "background"
           /\ validateOperation(lastCall'.operation).valid)
          => clipboardHistory' =
                handleIncomingOperation(clipboardHistory, syncStatus,
                                        lastCall'.operation, now).history
       /\ (lastCall'.name = "handleIncomingOperation"
           /\ lastCall'.valid /\ ~lastCall'.echo)
          => \A op \in HistoryOperations :
                (/\ op.source # "background"
                 /\ validateOperation(op).valid
                 /\ clipboardHistory' =
                       handleIncomingOperation(clipboardHistory, syncStatus, op, now).history)
                => clipboardHistory' = handleSyncOperation(clipboardHistory, op)
      ]_vars

\* C40: a valid update changes no item but the one whose id is the
\* operation's itemId, also when the id of its data is another one: after
\* it is applied, by either applier, the history has the length it had and
\* every item of another id is what it was. (Stated as claimed; the item
\* replaced is the one of data.id.)
C40_UpdateChangesTheItemNamed ==
    [][/\ (/\ lastCall'.name = "handleSyncOperation"
           /\ lastCall'.operation.type = "update"
           /\ validateOperation(lastCall'.operation).valid)
          => /\ Len(clipboardHistory'.items) = Len(clipboardHistory.items)
             /\ \A k \in 1..Len(clipboardHistory.items) :
                   clipboardHistory.items[k].id # lastCall'.operation.itemId
                   => clipboardHistory'.items[k] = clipboardHistory.items[k]
       /\ (lastCall'.name = "handleIncomingOperation"
           /\ lastCall'.valid /\ ~lastCall'.echo)
          => \A op \in UpdateOperations :
                (/\ validateOperation(op).valid
                 /\ clipboardHistory' =
                       handleIncomingOperation(clipboardHistory, syncStatus, op, now).history)
                => /\ Len(clipboardHistory'.items) = Len(clipboardHistory.items)
                   /\ \A k \in 1..Len(clipboardHistory.items) :
                         clipboardHistory.items[k].id # op.itemId
                         => clipboardHistory'.items[k] = clipboardHistory.items[k]
      ]_vars

\* C36: in every state reached from the default record by calls of
\* checkClipboardPermission, requestClipboardPermission,
\* isPermissionGranted and resetPermissionStatus, the stored state is
\* granted or denied exactly when hasRequested is true, and it is prompt
\* exactly when hasRequested is false and lastChecked is 0.
C36_PermissionRecord ==
    /\ permissionStatus.clipboard \in {"granted", "denied", "prompt"}
    /\ (permissionStatus.clipboard \in {"granted", "denied"})
          = permissionStatus.hasRequested
    /\ (permissionStatus.clipboard = "prompt")
          = (~permissionStatus.hasRequested /\ permissionStatus.lastChecked = 0)

\* isPermissionGranted found the permission held on a record that was the
\* default one, and wrote it granted.
C36_Witness ==
    /\ returned.fn = "isPermissionGranted"
    /\ returned.before = DEFAULT_PERMISSION_STATUS
    /\ returned.value = TRUE
    /\ permissionStatus.clipboard = "granted"
    /\ permissionStatus.hasRequested
    /\ permissionStatus.lastChecked > 0

\* C31: once a delete of an item, or a clear, has been applied to the
\* history, the item is never in it again, also when a create of it that is
\* still pending is applied again by a retry or by a reconciliation pass.
\* (Stated as claimed; a create applied to a history without the item adds
\* it.)
C31_NoResurrection ==
    (/\ returned.fn = "handleIncomingOperation"
     /\ returned.operation.type \in {"delete", "clear"})
    => ~HasId(clipboardHistory.items, ClearedItem.id)

\* The calls of createItem, deleteItem and clearHistory whose broadcast has
\* started and has not resolved.
Broadcasting(t) ==
    /\ tasks[t].kind \in SubmitKinds
    /\ tasks[t].pc \in {"queryTabs", "awaitSettled", "backoff"}

PendingSet == {syncStatus.pendingOperations[i] :
                  i \in 1..Len(syncStatus.pendingOperations)}

\* C32: an operation stays in pendingOperations until its own broadcast has
\* completed: the filter that ends one createItem, deleteItem or
\* clearHistory call removes no operation of another call whose broadcast
\* is still in flight.  (Stated as claimed; the filters match on type and
\* id, not on the operation.)
C32_CompletionRemovesItsOwn ==
    [][lastCall'.name = "complete" =>
          \A u \in TaskIds \ {lastCall'.task} :
             (Broadcasting(u) /\ Value(tasks[u].op) \in PendingSet)
             => Value(tasks[u].op) \in PendingSet']_vars

\* An attempt of broadcastOperation between its first send and the end of
\* its try block or its catch.
AttemptInFlight(t) == tasks[t].pc \in {"queryTabs", "awaitSettled"}

\* C34: isSyncing is true whenever an attempt of broadcastOperation is in
\* flight, also when several overlap, and false when none is.  (Stated as
\* claimed; the flag is one boolean that every attempt sets and clears.)
C34_IsSyncingWhileInFlight ==
    syncStatus.isSyncing = (\E t \in TaskIds : AttemptInFlight(t))

\* C33: when its broadcast completed without error, the operation of a
\* createItem, deleteItem or clearHistory call is not in pendingOperations
\* when the call returns; and when every broadcast succeeds and, from some
\* point on, no operation is submitted, pendingOperations becomes empty and
\* stays so.
C33_PendingDrains ==
    /\ [][lastCall'.name = "complete" =>
             Value(tasks[lastCall'.task].op) \notin PendingSet']_vars
    /\ (<>[][lastCall'.name \notin SubmitKinds]_vars)
          => <>[](Len(syncStatus.pendingOperations) = 0)

\* A call returned after its filter, which left pendingOperations empty,
\* and the history holds what its operation made of it.
C33_Witness ==
    /\ lastCall.name = "complete"
    /\ Len(syncStatus.pendingOperations) = 0
    /\ \A t \in TaskIds : tasks[t].pc = "idle"

====
